---- MODULE Spec2Model ----
(***************************************************************************)
(* A model of tokuin's token accounting core: the model registry           *)
(* (src/models/registry.rs), the tokenizers (src/tokenizers), the message  *)
(* parsers (src/parsers) and the accounting / diff paths of the command    *)
(* line (src/cli.rs).                                                      *)
(*                                                                         *)
(* Representation.                                                         *)
(*  - A Rust String is a sequence of one-character strings, so that        *)
(*    to_lowercase, starts_with, rsplit('/') and chars().count() are       *)
(*    computed character by character.                                     *)
(*  - Option<T>: None is << >>, Some(x) is << x >>.                         *)
(*  - A price per 1K tokens is an integer number of micro-USD              *)
(*    (0.03 USD = 30000); a cost (tokens / 1000) * price is then the       *)
(*    integer tokens * price in units of 10^-9 USD.                        *)
(***************************************************************************)
EXTENDS Integers, Sequences, FiniteSets, TLC

VARIABLES
    models,      \* ModelRegistry.models : HashMap<String, ModelInfo>
    applied,     \* entries of the last pricing config, in the order upserted
    applies,     \* number of apply_pricing_from calls so far
    loadResult,  \* result of the last apply_pricing_from: "none", "ok", "ConfigLoadFailed"
    env,         \* std::env::var("TOKUIN_PRICING_FILE").ok()
    call,        \* arguments and outcome of the last apply_pricing_from / new_with_pricing
    lookup,      \* name and answers of the last registry lookup
    bpeModels,   \* the model names tiktoken's get_bpe_from_model knows
    vocab,       \* the texts that are one token of the BPE vocabulary
    pc,          \* position of the command line run
    tokenizer,   \* result of registry.get_tokenizer(model_name)
    acct,        \* arguments and TokenResult of the last Cli::count_tokens
    diff,        \* arguments and outcome of Cli::run_diff
    parse,       \* input and result of the last parser call
    enc,         \* text, encode(text) and count_tokens(text) of the last tokenizer call
    run,         \* locals of Cli::run: input, models, messages, results, output
    watch        \* the notification loop of Cli::run_watch

vars == <<models, applied, applies, loadResult, env, call, lookup,
          bpeModels, vocab, pc, tokenizer, acct, diff, parse, enc, run, watch>>
registryVars == <<models, applied, applies, loadResult, env, call, lookup>>
cliVars == <<bpeModels, vocab, pc, tokenizer, acct, diff, parse, enc, run, watch>>

(***************************************************************************)
(* Option and String helpers                                               *)
(***************************************************************************)
None == << >>
Some(x) == << x >>
IsSome(o) == o # << >>
Unwrap(o) == o[1]

\* Result<T, E>
Ok(x)  == [ok |-> TRUE,  val |-> x]
Err(e) == [ok |-> FALSE, err |-> e]

\* char::to_lowercase over the ASCII letters
LowerChar(c) ==
    CASE c = "A" -> "a" [] c = "B" -> "b" [] c = "C" -> "c" [] c = "D" -> "d"
      [] c = "E" -> "e" [] c = "F" -> "f" [] c = "G" -> "g" [] c = "H" -> "h"
      [] c = "I" -> "i" [] c = "J" -> "j" [] c = "K" -> "k" [] c = "L" -> "l"
      [] c = "M" -> "m" [] c = "N" -> "n" [] c = "O" -> "o" [] c = "P" -> "p"
      [] c = "Q" -> "q" [] c = "R" -> "r" [] c = "S" -> "s" [] c = "T" -> "t"
      [] c = "U" -> "u" [] c = "V" -> "v" [] c = "W" -> "w" [] c = "X" -> "x"
      [] c = "Y" -> "y" [] c = "Z" -> "z" [] OTHER -> c

\* str::to_lowercase
ToLowercase(s) == [i \in 1..Len(s) |-> LowerChar(s[i])]

\* str::starts_with
StartsWith(s, prefix) ==
    /\ Len(prefix) <= Len(s)
    /\ SubSeq(s, 1, Len(prefix)) = prefix

\* format!("{}/{}", provider, model)
FormatKey(provider, model) == provider \o << "/" >> \o model

\* model_name.rsplit('/').next(): the part after the last '/', or the whole
\* string when it has none
RSplitLast(s) ==
    LET slashes == {i \in 1..Len(s) : s[i] = "/"}
    IN  IF slashes = {} THEN s
        ELSE LET last == CHOOSE i \in slashes : \A j \in slashes : j <= i
             IN  SubSeq(s, last + 1, Len(s))

(***************************************************************************)
(* Names used by the program and by the bounded inputs                     *)
(***************************************************************************)
S_gpt_        == << "g", "p", "t", "-" >>
S_text_       == << "t", "e", "x", "t", "-" >>
S_gemini_     == << "g", "e", "m", "i", "n", "i", "-" >>
S_openai      == << "o", "p", "e", "n", "a", "i" >>
S_google      == << "g", "o", "o", "g", "l", "e" >>
S_azure       == << "a", "z", "u", "r", "e" >>
S_gpt4        == S_gpt_ \o << "4" >>
S_GPT4        == << "G", "P", "T", "-", "4" >>
S_gpt4turbo   == S_gpt4 \o << "-", "t", "u", "r", "b", "o" >>
S_gpt4turbopreview == S_gpt4turbo \o << "-", "p", "r", "e", "v", "i", "e", "w" >>
S_gpt35turbo  == S_gpt_ \o << "3", ".", "5", "-", "t", "u", "r", "b", "o" >>
S_geminipro   == S_gemini_ \o << "p", "r", "o" >>
S_gemini25pro == S_gemini_ \o << "2", ".", "5", "-", "p", "r", "o" >>
S_gemini25flash == S_gemini_ \o << "2", ".", "5", "-", "f", "l", "a", "s", "h" >>

(***************************************************************************)
(* Model registry                                                          *)
(***************************************************************************)
ModelInfo(provider, model, input_price, output_price) ==
    [provider |-> provider, model |-> model,
     input_price |-> input_price, output_price |-> output_price]

\* HashMap::get
MapGet(m, key) == IF key \in DOMAIN m THEN Some(m[key]) ELSE None

\* the three keys upsert_model writes, in the order it writes them
UpsertKeys(provider, model) ==
    << model, FormatKey(provider, model), ToLowercase(model) >>

\* mutant: entry(key).or_insert_with(..) alone, an existing entry is kept
UpsertEntryInsertOnly(m, key, info) ==
    IF key \in DOMAIN m
    THEN m
    ELSE [k \in DOMAIN m \cup {key} |-> IF k = key THEN info ELSE m[k]]

\* self.models.entry(key).and_modify(..).or_insert_with(..)
UpsertEntry(m, key, info) ==
    IF key \in DOMAIN m
    THEN [m EXCEPT ![key] = [@ EXCEPT !.provider = info.provider,
                                       !.model = info.model,
                                       !.input_price = info.input_price,
                                       !.output_price = info.output_price]]
    ELSE [k \in DOMAIN m \cup {key} |-> IF k = key THEN info ELSE m[k]]

upsert_model(m, provider, model, input_price, output_price) ==
    LET info == ModelInfo(provider, model, input_price, output_price)
        keys == UpsertKeys(provider, model)
    IN  UpsertEntry(UpsertEntry(UpsertEntry(m, keys[1], info), keys[2], info),
                    keys[3], info)

EmptyMap == [k \in {} |-> None]

\* register_default_models (features "openai" and "gemini" enabled)
register_default_models(m) ==
    LET m1 == upsert_model(m,  S_openai, S_gpt4,        Some(30000), Some(60000))
        m2 == upsert_model(m1, S_openai, S_gpt4turbo,   Some(10000), Some(30000))
        m3 == upsert_model(m2, S_openai, S_gpt35turbo,  Some(1500),  Some(2000))
        m4 == upsert_model(m3, S_google, S_geminipro,   Some(1250),  Some(10000))
        m5 == upsert_model(m4, S_google, S_gemini25pro, Some(1250),  Some(10000))
    IN  upsert_model(m5, S_google, S_gemini25flash, Some(75), Some(300))

\* ModelRegistry::new
NewRegistry == register_default_models(EmptyMap)

\* mutant: the name is cut at its first '/' (split_once) instead of its last
resolve_alias_first_slash(model_name) ==
    LET slashes == {i \in 1..Len(model_name) : model_name[i] = "/"}
        base == IF slashes = {} THEN model_name
                ELSE SubSeq(model_name,
                            (CHOOSE i \in slashes : \A j \in slashes : i <= j) + 1,
                            Len(model_name))
    IN  IF base = S_gpt4turbo \/ base = S_gpt4turbopreview
        THEN S_gpt4turbopreview
        ELSE base

resolve_alias(model_name) ==
    LET base == RSplitLast(model_name)
    IN  IF base = S_gpt4turbo \/ base = S_gpt4turbopreview
        THEN S_gpt4turbopreview
        ELSE base

\* mutant: the resolved alias is tried first, the raw name second
get_model_info_alias_first(m, model_name) ==
    IF MapGet(m, resolve_alias(model_name)) # None
    THEN MapGet(m, resolve_alias(model_name))
    ELSE MapGet(m, model_name)

get_model_info(m, model_name) ==
    IF MapGet(m, model_name) # None
    THEN MapGet(m, model_name)
    ELSE MapGet(m, resolve_alias(model_name))

\* mutant: only the raw name is looked up (self.models.get(model_name))
pricing_for_raw_only(m, model_name) ==
    LET found == MapGet(m, model_name)
    IN  IF found = None THEN None
        ELSE LET info == Unwrap(found)
             IN  IF IsSome(info.input_price) /\ IsSome(info.output_price)
                 THEN Some(<< Unwrap(info.input_price), Unwrap(info.output_price) >>)
                 ELSE None

pricing_for(m, model_name) ==
    LET found == get_model_info(m, model_name)
    IN  IF found = None THEN None
        ELSE LET info == Unwrap(found)
             IN  IF IsSome(info.input_price) /\ IsSome(info.output_price)
                 THEN Some(<< Unwrap(info.input_price), Unwrap(info.output_price) >>)
                 ELSE None

\* apply_pricing_config: one upsert per (provider, model) entry; `order` is
\* the sequence in which the two nested HashMap iterations yield the entries
RECURSIVE apply_pricing_config(_, _)
apply_pricing_config(m, order) ==
    IF order = << >> THEN m
    ELSE LET e == Head(order)
         IN  apply_pricing_config(
                 upsert_model(m, e.provider, e.model, Some(e.input), Some(e.output)),
                 Tail(order))

(***************************************************************************)
(* Bounded inputs of the registry                                          *)
(***************************************************************************)
MaxEntries == 2     \* entries in one pricing config
MaxApplies == 2     \* apply_pricing_from calls in one behaviour

OverrideProviders == {S_openai, S_azure}
OverrideModels    == {S_gpt4, S_GPT4}

\* the (input, output) prices a pricing file gives each (provider, model),
\* all different from one another and from the built-in prices
OverridePrices ==
    [pm \in OverrideProviders \X OverrideModels |->
        IF pm = << S_openai, S_GPT4 >> THEN << 20000, 40000 >>
        ELSE IF pm = << S_openai, S_gpt4 >> THEN << 5000, 7000 >>
        ELSE IF pm = << S_azure, S_gpt4 >> THEN << 25000, 50000 >>
        ELSE << 8000, 9000 >>]

\* PricingConfig: provider -> model -> {input, output}, as a function on the
\* (provider, model) pairs the file names
Configs ==
    {[pm \in d |-> OverridePrices[pm]] :
        d \in {x \in SUBSET (OverrideProviders \X OverrideModels) :
                  Cardinality(x) <= MaxEntries}}

ConfigEntry(config, pm) ==
    [provider |-> pm[1], model |-> pm[2],
     input |-> config[pm][1], output |-> config[pm][2]]

\* the orders in which `for (provider, ..) in config.providers` and, inside
\* it, `for (model, ..) in provider_pricing.models` can yield the entries:
\* any order of the providers, and any order of the models of one provider
IterationOrders(config) ==
    LET d == DOMAIN config
        n == Cardinality(d)
    IN  {[i \in 1..n |-> ConfigEntry(config, s[i])] :
           s \in {t \in [1..n -> d] :
                    /\ \A i, j \in 1..n : t[i] = t[j] => i = j
                    /\ \A i, j, k \in 1..n :
                          (i < j /\ j < k /\ t[i][1] = t[k][1]) => t[j][1] = t[i][1]}}

(***************************************************************************)
(* Registry operations                                                     *)
(***************************************************************************)
RegistryIdle ==
    /\ models = NewRegistry
    /\ applied = << >>
    /\ applies = 0
    /\ loadResult = "none"
    /\ env = None
    /\ call = << >>
    /\ lookup = << >>

CliIdle ==
    /\ bpeModels = {}
    /\ vocab = {}
    /\ pc = "idle"
    /\ tokenizer = << >>
    /\ acct = << >>
    /\ diff = << >>
    /\ parse = << >>
    /\ enc = << >>
    /\ run = << >>
    /\ watch = << >>

\* ModelError::ConfigLoadFailed("Failed to load pricing file '<path>': <e>")
ConfigLoadFailed(path, cause) ==
    [kind |-> "ConfigLoadFailed", detail |-> [path |-> path, cause |-> cause]]

S_pricing_toml == << "p", ".", "t", "o", "m", "l" >>
S_env_toml     == << "e", ".", "t", "o", "m", "l" >>

\* the pricing_path argument, and the value of TOKUIN_PRICING_FILE
PricingPaths == {None, Some(S_pricing_toml)}
EnvPaths     == {None, Some(S_env_toml)}

\* PricingConfig::from_file(path): the file is missing, or is not of the
\* expected structure, or gives a config
FromFileFailures == {Err("missing file"), Err("malformed structure")}

\* pricing_path.map(|p| p.to_string()).or_else(|| std::env::var(..).ok())
explicit_path(pricing_path, envPath) ==
    IF IsSome(pricing_path) THEN pricing_path ELSE envPath

\* mutant: a load failure is swallowed and the call returns Ok(())
apply_pricing_from_lenient(m, pricing_path, envPath, loaded, order) ==
    IF explicit_path(pricing_path, envPath) = None \/ ~loaded.ok
    THEN [result |-> Ok("unit"), models |-> m]
    ELSE [result |-> Ok("unit"), models |-> apply_pricing_config(m, order)]

\* ModelRegistry::apply_pricing_from: `loaded` is the result of
\* PricingConfig::from_file on the chosen path, `order` the order in which
\* the loaded config is iterated
apply_pricing_from(m, pricing_path, envPath, loaded, order) ==
    IF explicit_path(pricing_path, envPath) = None
    THEN [result |-> Ok("unit"), models |-> m]
    ELSE IF ~loaded.ok
    THEN [result |-> Err(ConfigLoadFailed(Unwrap(explicit_path(pricing_path, envPath)),
                                          loaded.err)),
          models |-> m]
    ELSE [result |-> Ok("unit"), models |-> apply_pricing_config(m, order)]

\* ModelRegistry::new_with_pricing: Self::new(), apply_pricing_from(..)?,
\* Ok(registry)
new_with_pricing(applied_to_new) ==
    IF applied_to_new.result.ok
    THEN Ok(applied_to_new.models)
    ELSE Err(applied_to_new.result.err)

\* a call is made on the registry of Self::new() from inside
\* new_with_pricing, or by the owner of a registry
Vias == IF applies = 0 THEN {"new_with_pricing", "apply_pricing_from"}
        ELSE {"apply_pricing_from"}

\* the caller holds a registry: new_with_pricing did not return Err
Live ==
    IF call = << >> THEN TRUE
    ELSE IF call.via = "apply_pricing_from" THEN TRUE
    ELSE call.result.ok

InitRegistry ==
    /\ models = NewRegistry
    /\ applied = << >>
    /\ applies = 0
    /\ loadResult = "none"
    /\ env \in EnvPaths
    /\ call = << >>
    /\ lookup = << >>
    /\ CliIdle

\* one call of apply_pricing_from(pricing_path), directly or from
\* new_with_pricing
ApplyPricingFrom(via, pricing_path, loaded, order) ==
    LET r == apply_pricing_from(models, pricing_path, env, loaded, order)
    IN  /\ models' = r.models
        /\ loadResult' = IF r.result.ok THEN "ok" ELSE r.result.err.kind
        /\ call' = [via |-> via, pricing_path |-> pricing_path,
                    loaded |-> loaded.ok, result |-> r.result]
        /\ applies' = applies + 1
        /\ UNCHANGED <<env, lookup>>
        /\ UNCHANGED cliVars

\* apply_pricing_from with neither an explicit path nor TOKUIN_PRICING_FILE
ApplyPricingNoSource ==
    /\ Live
    /\ applies < MaxApplies
    /\ \E via \in Vias, pricing_path \in PricingPaths :
         /\ explicit_path(pricing_path, env) = None
         /\ ApplyPricingFrom(via, pricing_path, Err("not loaded"), << >>)
    /\ UNCHANGED applied

\* apply_pricing_from when PricingConfig::from_file fails
ApplyPricingLoadFailed ==
    /\ Live
    /\ applies < MaxApplies
    /\ \E via \in Vias, pricing_path \in PricingPaths, loaded \in FromFileFailures :
         /\ explicit_path(pricing_path, env) # None
         /\ ApplyPricingFrom(via, pricing_path, loaded, << >>)
    /\ UNCHANGED applied

\* apply_pricing_from when the file loads: apply_pricing_config(config)
ApplyPricingConfig ==
    /\ Live
    /\ applies < MaxApplies
    /\ \E config \in Configs :
         \E order \in IterationOrders(config) :
            /\ applied' = order
            /\ \E via \in Vias, pricing_path \in PricingPaths :
                 /\ explicit_path(pricing_path, env) # None
                 /\ ApplyPricingFrom(via, pricing_path, Ok(config), order)

NextRegistry ==
    \/ ApplyPricingNoSource
    \/ ApplyPricingLoadFailed
    \/ ApplyPricingConfig

SpecRegistry == InitRegistry /\ [][NextRegistry]_vars

(***************************************************************************)
(* Claims about the registry                                               *)
(***************************************************************************)
KeySet(e) == {UpsertKeys(e.provider, e.model)[i] : i \in 1..3}

\* the entry at position i of the last config was not followed, in the same
\* config, by an entry that writes one of its keys
NotSuperseded(i) ==
    \A j \in (i + 1)..Len(applied) : KeySet(applied[j]) \cap KeySet(applied[i]) = {}

\* C1: after the default catalog is registered and an override (p, m, i, o)
\* is applied, pricing_for returns (i, o) under each of the keys m, "p/m" and
\* lowercase(m): for the override applied last, and for every override of
\* the config that no later override of it shares a key with.
C1_OverridePrecedence ==
    \A i \in 1..Len(applied) :
        NotSuperseded(i) =>
            \A key \in KeySet(applied[i]) :
                pricing_for(models, key) = Some(<< applied[i].input, applied[i].output >>)

\* an override of openai/GPT-4 was applied last: it replaced the built-in
\* gpt-4 entry under the lowercased key
C1_Witness ==
    /\ applied # << >>
    /\ applied[Len(applied)].provider = S_openai
    /\ applied[Len(applied)].model = S_GPT4
    /\ applied[Len(applied)].input = 20000
    /\ pricing_for(NewRegistry, S_gpt4) = Some(<< 30000, 60000 >>)
    /\ pricing_for(models, S_gpt4) = Some(<< 20000, 40000 >>)
    /\ pricing_for(models, FormatKey(S_openai, S_GPT4)) = Some(<< 20000, 40000 >>)
    /\ pricing_for(models, S_GPT4) = Some(<< 20000, 40000 >>)

\* the names a caller may look up
S_Gpt4 == << "G", "p", "t", "-", "4" >>
LookupNames ==
    {S_gpt4, S_GPT4, S_Gpt4, S_gpt4turbo, S_gpt4turbopreview,
     FormatKey(S_openai, S_gpt4), FormatKey(S_openai, S_GPT4),
     FormatKey(S_azure, S_gpt4), FormatKey(S_azure, S_GPT4)}

\* the records of the catalog
Records == {models[k] : k \in DOMAIN models}

\* C2: lookups are case-insensitive: for a registered model m of provider p,
\* get_model_info and pricing_for give the same answer for m, for "p/m" and
\* for every letter-case variant of m.
C2_CaseInsensitiveLookup ==
    \A r \in Records :
        \A name \in LookupNames \cup {FormatKey(r.provider, r.model)} :
            (ToLowercase(name) = ToLowercase(r.model) \/ name = FormatKey(r.provider, r.model))
                => /\ get_model_info(models, name) = get_model_info(models, r.model)
                   /\ pricing_for(models, name) = pricing_for(models, r.model)

(***************************************************************************)
(* Tokenizers                                                              *)
(***************************************************************************)
ModelNotFound(model) == [kind |-> "ModelNotFound", detail |-> model]
InitializationFailed(model) == [kind |-> "InitializationFailed", detail |-> model]
InvalidFormat(msg) == [kind |-> "InvalidFormat", detail |-> msg]
IoError(msg) == [kind |-> "Io", detail |-> msg]

S_gpt4_0314     == S_gpt4 \o << "-", "0", "3", "1", "4" >>
S_gpt4_32k      == S_gpt4 \o << "-", "3", "2", "k" >>
S_gpt4_32k_0314 == S_gpt4_32k \o << "-", "0", "3", "1", "4" >>
S_gpt4_0125_preview == S_gpt4 \o << "-", "0", "1", "2", "5", "-", "p", "r", "e", "v", "i", "e", "w" >>
S_gpt35turbo_0301 == S_gpt35turbo \o << "-", "0", "3", "0", "1" >>
S_gpt35turbo_16k  == S_gpt35turbo \o << "-", "1", "6", "k" >>
S_geminiflash   == S_gemini_ \o << "f", "l", "a", "s", "h" >>

\* the pricing match of OpenAITokenizer::new
\* mutant: the turbo models are priced as gpt-4
OpenAIPricesTurboAsGpt4(model) ==
    IF model \in {S_gpt4, S_gpt4_0314, S_gpt4_32k, S_gpt4_32k_0314,
                  S_gpt4turbopreview, S_gpt4turbo, S_gpt4_0125_preview}
    THEN << Some(30000), Some(60000) >>
    ELSE IF model \in {S_gpt35turbo, S_gpt35turbo_0301}
    THEN << Some(1500), Some(2000) >>
    ELSE IF model = S_gpt35turbo_16k
    THEN << Some(3000), Some(4000) >>
    ELSE << None, None >>

\* the pricing match of OpenAITokenizer::new
OpenAIPrices(model) ==
    IF model \in {S_gpt4, S_gpt4_0314, S_gpt4_32k, S_gpt4_32k_0314}
    THEN << Some(30000), Some(60000) >>
    ELSE IF model \in {S_gpt4turbopreview, S_gpt4turbo, S_gpt4_0125_preview}
    THEN << Some(10000), Some(30000) >>
    ELSE IF model \in {S_gpt35turbo, S_gpt35turbo_0301}
    THEN << Some(1500), Some(2000) >>
    ELSE IF model = S_gpt35turbo_16k
    THEN << Some(3000), Some(4000) >>
    ELSE << None, None >>

\* OpenAITokenizer::new: get_bpe_from_model decides whether the model has a
\* vocabulary
OpenAITokenizer_new(model) ==
    IF model \in bpeModels
    THEN Ok([family |-> "openai", model_name |-> model,
             input_price |-> OpenAIPrices(model)[1],
             output_price |-> OpenAIPrices(model)[2]])
    ELSE Err(InitializationFailed(model))

\* the pricing match of GeminiTokenizer::new
GeminiPrices(model) ==
    IF model \in {S_gemini25pro, S_geminipro}
    THEN << Some(1250), Some(10000) >>
    ELSE IF model \in {S_gemini25flash, S_geminiflash}
    THEN << Some(75), Some(300) >>
    ELSE << None, None >>

\* GeminiTokenizer::new: never fails, no SentencePiece processor is loaded
GeminiTokenizer_new(model) ==
    Ok([family |-> "gemini", model_name |-> model,
        input_price |-> GeminiPrices(model)[1],
        output_price |-> GeminiPrices(model)[2]])

\* mutant: a name of no known family falls back to the OpenAI tokenizer of gpt-4
get_tokenizer_fallback(model_name) ==
    LET model == resolve_alias(model_name)
    IN  IF StartsWith(model, S_gpt_) \/ StartsWith(model, S_text_)
        THEN OpenAITokenizer_new(model)
        ELSE IF StartsWith(model, S_gemini_)
        THEN GeminiTokenizer_new(model)
        ELSE OpenAITokenizer_new(S_gpt4)

\* mutant: the tokenizer reports the prices the catalog has for the name
get_tokenizer_catalog_prices(model_name) ==
    LET model == resolve_alias(model_name)
        made == IF StartsWith(model, S_gpt_) \/ StartsWith(model, S_text_)
                THEN OpenAITokenizer_new(model)
                ELSE IF StartsWith(model, S_gemini_)
                THEN GeminiTokenizer_new(model)
                ELSE Err(ModelNotFound(model_name))
        listed == pricing_for(models, model_name)
    IN  IF made.ok /\ IsSome(listed)
        THEN Ok([made.val EXCEPT !.input_price = Some(Unwrap(listed)[1]),
                                 !.output_price = Some(Unwrap(listed)[2])])
        ELSE made

\* ModelRegistry::get_tokenizer (features "openai" and "gemini" enabled)
get_tokenizer(model_name) ==
    LET model == resolve_alias(model_name)
    IN  IF StartsWith(model, S_gpt_) \/ StartsWith(model, S_text_)
        THEN OpenAITokenizer_new(model)
        ELSE IF StartsWith(model, S_gemini_)
        THEN GeminiTokenizer_new(model)
        ELSE Err(ModelNotFound(model_name))

\* the text of the special token of the vocabulary
S_endoftext ==
    << "<", "|", "e", "n", "d", "o", "f", "t", "e", "x", "t", "|", ">" >>
SpecialTokens == {S_endoftext}

\* CoreBPE::encode_with_special_tokens: the text of a special token and a text
\* of the vocabulary are one token, any other text is split into one token
\* per character; a token is written as the piece of text it stands for
BpeEncode(text) ==
    IF text \in SpecialTokens THEN << text >>
    ELSE IF text \in vocab THEN << text >>
    ELSE [i \in 1..Len(text) |-> << text[i] >>]

\* the encoder table of the vocabulary: a rank below 256 for each single
\* character, then the ranks of the merged pieces, then the special token
Alphabet ==
    << "H", "i", "e", "l", "o", "u", "s", "r", "y", "t", "m", "a", "n", "g",
       "p", "-", "4", "b", "v", "w", " " >>
MergedPieces == << << "H", "e", "l", "l", "o" >> >>
EndOfTextRank == 100257

IndexIn(seq, x) == CHOOSE i \in 1..Len(seq) : seq[i] = x

Rank(piece) ==
    IF piece \in SpecialTokens THEN EndOfTextRank
    ELSE IF Len(piece) = 1 THEN IndexIn(Alphabet, piece[1]) - 1
    ELSE 255 + IndexIn(MergedPieces, piece)

\* the decoder table, the inverse of the encoder table: no piece for a rank
\* the vocabulary does not have
PieceOf(rank) ==
    IF rank = EndOfTextRank THEN Some(S_endoftext)
    ELSE IF rank + 1 \in 1..Len(Alphabet) THEN Some(<< Alphabet[rank + 1] >>)
    ELSE IF rank - 255 \in 1..Len(MergedPieces) /\ MergedPieces[rank - 255] \in vocab
    THEN Some(MergedPieces[rank - 255])
    ELSE None

RECURSIVE Concat(_)
Concat(pieces) ==
    IF pieces = << >> THEN << >> ELSE Head(pieces) \o Concat(Tail(pieces))

DecodingFailed(msg) == [kind |-> "DecodingFailed", detail |-> msg]

\* mutant: the pieces of the tokens are joined with a blank between them
BpeDecodeSpaced(tokens) ==
    IF \E i \in 1..Len(tokens) : PieceOf(tokens[i]) = None
    THEN Err(DecodingFailed("invalid token"))
    ELSE Ok(Concat([i \in 1..Len(tokens) |->
                      IF i = 1 THEN Unwrap(PieceOf(tokens[i]))
                      ELSE << " " >> \o Unwrap(PieceOf(tokens[i]))]))

\* CoreBPE::decode: the pieces of the tokens one after the other, an error
\* for a token the decoder table does not have
BpeDecode(tokens) ==
    IF \E i \in 1..Len(tokens) : PieceOf(tokens[i]) = None
    THEN Err(DecodingFailed("invalid token"))
    ELSE Ok(Concat([i \in 1..Len(tokens) |-> Unwrap(PieceOf(tokens[i]))]))

\* OpenAITokenizer::encode: the ranks as usize
OpenAIEncode(text) ==
    [i \in 1..Len(BpeEncode(text)) |-> Rank(BpeEncode(text)[i])]

\* OpenAITokenizer::decode: the tokens as u32, then CoreBPE::decode; a rank
\* is a u32 to begin with, so the two casts of a token that encode gave
\* keep its value
OpenAIDecode(tokens) ==
    BpeDecode([i \in 1..Len(tokens) |-> tokens[i]])

\* slice::chunks(n): consecutive pieces of n elements, the last one shorter
\* when the length is no multiple of n
RECURSIVE Chunks(_, _)
Chunks(s, n) ==
    IF s = << >> THEN << >>
    ELSE IF Len(s) <= n THEN << s >>
    ELSE << SubSeq(s, 1, n) >> \o Chunks(SubSeq(s, n + 1, Len(s)), n)

\* Tokenizer::encode of the two backends; without a SentencePiece processor
\* the Gemini backend gives the token 1 for each chunk of 4 characters
TokenizerEncode(tok, text) ==
    IF tok.family = "openai"
    THEN Ok(OpenAIEncode(text))
    ELSE Ok([i \in 1..Len(Chunks(text, 4)) |-> 1])

\* Tokenizer::decode of the two backends; without a SentencePiece processor
\* the Gemini backend cannot decode
TokenizerDecode(tok, tokens) ==
    IF tok.family = "openai"
    THEN OpenAIDecode(tokens)
    ELSE Err(DecodingFailed("Decoding requires SentencePiece model file"))

\* mutant: the estimate is rounded down, (chars / 4.0) as usize
TokenizerCountFloor(tok, text) ==
    IF tok.family = "openai"
    THEN Len(BpeEncode(text))
    ELSE Len(text) \div 4

\* Tokenizer::count_tokens of the two backends
TokenizerCount(tok, text) ==
    IF tok.family = "openai"
    THEN Len(BpeEncode(text))
    ELSE (Len(text) + 3) \div 4        \* (chars / 4.0).ceil()

(***************************************************************************)
(* Accounting: Cli::count_tokens                                           *)
(***************************************************************************)
S_system    == << "s", "y", "s", "t", "e", "m" >>
S_user      == << "u", "s", "e", "r" >>
S_assistant == << "a", "s", "s", "i", "s", "t", "a", "n", "t" >>

Message(role, content) == [role |-> role, content |-> content]

\* TokenBreakdown::new
NewBreakdown == [system |-> 0, user |-> 0, assistant |-> 0, total |-> 0]

\* mutant: the default arm of the match adds to the user bucket
AddToBucketDefaultUser(bd, role, count) ==
    IF role = S_system THEN [bd EXCEPT !.system = @ + count]
    ELSE IF role = S_assistant THEN [bd EXCEPT !.assistant = @ + count]
    ELSE [bd EXCEPT !.user = @ + count]

\* mutant: the role is matched ignoring letter case
AddToBucketIgnoreCase(bd, role, count) ==
    IF ToLowercase(role) = S_system THEN [bd EXCEPT !.system = @ + count]
    ELSE IF ToLowercase(role) = S_user THEN [bd EXCEPT !.user = @ + count]
    ELSE IF ToLowercase(role) = S_assistant THEN [bd EXCEPT !.assistant = @ + count]
    ELSE bd

\* the match on message.role
AddToBucket(bd, role, count) ==
    IF role = S_system THEN [bd EXCEPT !.system = @ + count]
    ELSE IF role = S_user THEN [bd EXCEPT !.user = @ + count]
    ELSE IF role = S_assistant THEN [bd EXCEPT !.assistant = @ + count]
    ELSE bd

\* mutant: total += count only inside the recognised arms of the match
CountMessageRecognisedOnly(tok, message, st) ==
    LET count == TokenizerCount(tok, message.content)
    IN  [total |-> IF message.role \in {S_system, S_user, S_assistant}
                   THEN st.total + count ELSE st.total,
         bd |-> IF IsSome(st.bd)
                THEN Some(AddToBucket(Unwrap(st.bd), message.role, count))
                ELSE None]

\* one iteration of `for message in messages`
CountMessage(tok, message, st) ==
    LET count == TokenizerCount(tok, message.content)
    IN  [total |-> st.total + count,
         bd |-> IF IsSome(st.bd)
                THEN Some(AddToBucket(Unwrap(st.bd), message.role, count))
                ELSE None]

RECURSIVE CountLoop(_, _, _)
CountLoop(tok, messages, st) ==
    IF messages = << >> THEN st
    ELSE CountLoop(tok, Tail(messages), CountMessage(tok, Head(messages), st))

\* (total as f64 / 1000.0) * price, in units of 10^-9 USD
Cost(total, price) == total * price

\* mutant: an unknown price is priced as zero (unwrap_or(0.0))
CostOfUnknownAsZero(price, total, price_per_1k) ==
    IF price
    THEN Some(Cost(total, IF IsSome(price_per_1k) THEN Unwrap(price_per_1k) ELSE 0))
    ELSE None

\* the `if price { tokenizer.*_price_per_1k().map(..) } else { None }` blocks
CostOf(price, total, price_per_1k) ==
    IF price /\ IsSome(price_per_1k)
    THEN Some(Cost(total, Unwrap(price_per_1k)))
    ELSE None

count_tokens(tok, messages, model_name, breakdown, price) ==
    LET st == CountLoop(tok, messages,
                        [total |-> 0,
                         bd |-> IF breakdown THEN Some(NewBreakdown) ELSE None])
        token_breakdown ==
            IF IsSome(st.bd)
            THEN Some([Unwrap(st.bd) EXCEPT !.total = st.total])
            ELSE None
    IN  [model |-> model_name,
         tokens |-> st.total,
         input_cost |-> CostOf(price, st.total, tok.input_price),
         output_cost |-> CostOf(price, st.total, tok.output_price),
         breakdown |-> token_breakdown]

(***************************************************************************)
(* Message parsers                                                         *)
(***************************************************************************)
S_role    == << "r", "o", "l", "e" >>
S_content == << "c", "o", "n", "t", "e", "n", "t" >>

IsWhitespace(c) == c \in {" ", "\n", "\t", "\r"}

\* position of the first character at or after i that is not whitespace
\* (Len(s) + 1 when there is none)
SkipWs(s, i) ==
    LET rest == {j \in i..Len(s) : ~IsWhitespace(s[j])}
    IN  IF rest = {} THEN Len(s) + 1
        ELSE CHOOSE j \in rest : \A k \in rest : j <= k

\* str::trim_start
TrimStart(s) == SubSeq(s, SkipWs(s, 1), Len(s))

\* mutant: the first character decides, leading whitespace is not skipped
LooksStructuredUntrimmed(input) ==
    \/ StartsWith(input, << "{" >>)
    \/ StartsWith(input, << "[" >>)

\* input.trim_start().starts_with('{') || input.trim_start().starts_with('[')
LooksStructured(input) ==
    \/ StartsWith(TrimStart(input), << "{" >>)
    \/ StartsWith(TrimStart(input), << "[" >>)

\* mutant: the content is the input without its leading whitespace
TextParser_parse_trimmed(input) == Ok(<< Message(S_user, TrimStart(input)) >>)

\* TextParser::parse
TextParser_parse(input) == Ok(<< Message(S_user, input) >>)

\* serde_json, restricted to the JSON this model's inputs are written in:
\* whitespace, strings without escapes, objects whose values are strings,
\* and arrays.  The text is first cut into tokens: a string literal, or one
\* character that is not whitespace.
Token(kind, text) == [kind |-> kind, text |-> text]

\* position of the quote closing the string literal opened at i, 0 if none
ClosingQuote(s, i) ==
    LET closing == {j \in (i + 1)..Len(s) : s[j] = "\""}
    IN  IF closing = {} THEN 0
        ELSE CHOOSE k \in closing : \A l \in closing : k <= l

RECURSIVE JsonTokens(_, _, _)
JsonTokens(s, i, acc) ==
    IF i > Len(s) THEN acc
    ELSE IF IsWhitespace(s[i]) THEN JsonTokens(s, i + 1, acc)
    ELSE IF s[i] # "\"" THEN JsonTokens(s, i + 1, Append(acc, Token(s[i], << >>)))
    ELSE IF ClosingQuote(s, i) = 0 THEN Append(acc, Token("unterminated", << >>))
    ELSE JsonTokens(s, ClosingQuote(s, i) + 1,
                    Append(acc, Token("string", SubSeq(s, i + 1, ClosingQuote(s, i) - 1))))

\* A parse step gives [ok, val, next]: next is the position of the token
\* after the value.
Parsed(val, next) == [ok |-> TRUE, val |-> val, next |-> next]
Failed == [ok |-> FALSE, val |-> << >>, next |-> 0]

Kind(toks, i) == IF i \in 1..Len(toks) THEN toks[i].kind ELSE "EOF"

\* the members of an object from token i (after '{' or ','), for the struct
\* JsonMessage {role, content}: a repeated field is an error, a missing
\* field is an error, any other key is ignored
RECURSIVE JsonMembers(_, _, _, _)
JsonMembers(toks, i, role, content) ==
    IF Kind(toks, i) # "string" \/ Kind(toks, i + 1) # ":" \/ Kind(toks, i + 2) # "string"
    THEN Failed
    ELSE IF (toks[i].text = S_role /\ IsSome(role))
              \/ (toks[i].text = S_content /\ IsSome(content))
    THEN Failed
    ELSE LET role2 == IF toks[i].text = S_role THEN Some(toks[i + 2].text) ELSE role
             content2 == IF toks[i].text = S_content THEN Some(toks[i + 2].text) ELSE content
         IN  IF Kind(toks, i + 3) = "," THEN JsonMembers(toks, i + 4, role2, content2)
             ELSE IF Kind(toks, i + 3) = "}" /\ IsSome(role2) /\ IsSome(content2)
             THEN Parsed([role |-> Unwrap(role2), content |-> Unwrap(content2)], i + 4)
             ELSE Failed

\* Deserialize for JsonMessage at token i: a map with the fields role and
\* content, or a sequence [role, content]
JsonMessageAt(toks, i) ==
    IF Kind(toks, i) = "{" THEN
        IF Kind(toks, i + 1) = "}" THEN Failed       \* missing field
        ELSE JsonMembers(toks, i + 1, None, None)
    ELSE IF Kind(toks, i) = "[" THEN
        IF /\ Kind(toks, i + 1) = "string" /\ Kind(toks, i + 2) = ","
           /\ Kind(toks, i + 3) = "string" /\ Kind(toks, i + 4) = "]"
        THEN Parsed([role |-> toks[i + 1].text, content |-> toks[i + 3].text], i + 5)
        ELSE Failed
    ELSE Failed

\* the elements of an array: `elem` is the element parsed last
RECURSIVE JsonElements(_, _, _)
JsonElements(toks, elem, acc) ==
    IF ~elem.ok THEN Failed
    ELSE IF Kind(toks, elem.next) = ","
    THEN JsonElements(toks, JsonMessageAt(toks, elem.next + 1), Append(acc, elem.val))
    ELSE IF Kind(toks, elem.next) = "]" THEN Parsed(Append(acc, elem.val), elem.next + 1)
    ELSE Failed

\* a value that is the whole input: no token follows it
WholeInput(toks, r) == IF r.ok /\ r.next = Len(toks) + 1 THEN r ELSE Failed

\* serde_json::from_str::<Vec<JsonMessage>>
FromStrVec(s) ==
    LET toks == JsonTokens(s, 1, << >>)
    IN  IF Kind(toks, 1) # "[" THEN Failed
        ELSE IF Kind(toks, 2) = "]" THEN WholeInput(toks, Parsed(<< >>, 3))
        ELSE WholeInput(toks, JsonElements(toks, JsonMessageAt(toks, 2), << >>))

\* serde_json::from_str::<JsonMessage>
FromStrOne(s) ==
    LET toks == JsonTokens(s, 1, << >>)
    IN  WholeInput(toks, JsonMessageAt(toks, 1))

\* the two attempts of JsonParser::parse
JsonParserResult(vec, one) ==
    IF vec.ok
    THEN Ok([i \in 1..Len(vec.val) |-> Message(vec.val[i].role, vec.val[i].content)])
    ELSE IF one.ok
    THEN Ok(<< Message(one.val.role, one.val.content) >>)
    ELSE Err(InvalidFormat("Input is not valid JSON message format"))

\* JsonParser::parse
JsonParser_parse(input) == JsonParserResult(FromStrVec(input), FromStrOne(input))

\* the parser selection of Cli::run and Cli::run_diff, then parser.parse
ParseInput(input) ==
    IF LooksStructured(input) THEN JsonParser_parse(input) ELSE TextParser_parse(input)

(***************************************************************************)
(* Bounded inputs of an accounting pass                                    *)
(***************************************************************************)
MaxMsgs == 2        \* messages in one parsed input

S_gpt4o        == S_gpt4 \o << "o" >>
S_geminiultra  == S_gemini_ \o << "u", "l", "t", "r", "a" >>
S_notarealmodel == << "n", "o", "t", "-", "a", "-", "r", "e", "a", "l", "-",
                      "m", "o", "d", "e", "l" >>
S_textx        == S_text_ \o << "x" >>
S_tool         == << "t", "o", "o", "l" >>
S_User         == << "U", "s", "e", "r" >>
S_Hi           == << "H", "i" >>
S_Hello        == << "H", "e", "l", "l", "o" >>
S_empty        == << >>

\* names given with --model / --compare
ModelNames ==
    {S_gpt4, FormatKey(S_openai, S_gpt4), S_gpt4turbo, S_gpt4o, S_textx,
     S_geminipro, FormatKey(S_google, S_geminiultra),
     S_notarealmodel, S_GPT4, S_empty, FormatKey(S_gpt4, S_notarealmodel)}

\* tests::test_openai_tokenizer_creation: gpt-4 has a vocabulary; whether the
\* other names have one is up to the tiktoken tables
BpeCertain   == {S_gpt4}
BpeUncertain == {S_gpt4turbopreview, S_gpt4o}

Roles    == {S_system, S_user, S_assistant, S_tool, S_User}
Contents == {S_empty, S_Hi, S_Hello}
Mergeable == {S_Hello}

MessageSeqs ==
    UNION {[1..n -> {Message(r, c) : r \in Roles, c \in Contents}] : n \in 0..MaxMsgs}

(***************************************************************************)
(* One accounting pass of Cli::run: get_tokenizer, then count_tokens       *)
(***************************************************************************)
InitAccounting ==
    /\ RegistryIdle
    /\ bpeModels \in {BpeCertain \cup x : x \in SUBSET BpeUncertain}
    /\ vocab \in SUBSET Mergeable
    /\ pc = "start"
    /\ tokenizer = << >>
    /\ acct = << >>
    /\ diff = << >>
    /\ parse = << >>
    /\ enc = << >>
    /\ run = << >>
    /\ watch = << >>

\* let tokenizer = registry.get_tokenizer(model_name)?
GetTokenizer ==
    /\ pc = "start"
    /\ \E model_name \in ModelNames :
         /\ tokenizer' = [model_name |-> model_name, res |-> get_tokenizer(model_name)]
         /\ pc' = IF get_tokenizer(model_name).ok THEN "tokenizer" ELSE "failed"
    /\ UNCHANGED <<registryVars, bpeModels, vocab, acct, diff, parse, enc, run, watch>>

\* let result = Self::count_tokens(&*tokenizer, &messages, model_name, breakdown, price)?
CountTokens ==
    /\ pc = "tokenizer"
    /\ \E messages \in MessageSeqs, breakdown \in BOOLEAN, price \in BOOLEAN :
         acct' = [messages |-> messages, breakdown |-> breakdown, price |-> price,
                  result |-> count_tokens(tokenizer.res.val, messages,
                                          tokenizer.model_name, breakdown, price)]
    /\ pc' = "counted"
    /\ UNCHANGED <<registryVars, bpeModels, vocab, tokenizer, diff, parse, enc, run, watch>>

\* the texts handed to a tokenizer on its own: of 0, 2, 4, 5, 6, 8, 9, 13 and
\* 19 characters, the text of the special token among them
EncTexts ==
    Contents \cup {S_user, S_system, S_assistant, S_gpt4turbopreview,
                   S_endoftext, << "H", "i", " ", "H", "e", "l", "l", "o" >>}

\* tokenizer.encode(text) and tokenizer.count_tokens(text)
EncodeText ==
    /\ pc = "tokenizer"
    /\ \E text \in EncTexts :
         enc' = [text |-> text,
                 tokens |-> TokenizerEncode(tokenizer.res.val, text),
                 count |-> Ok(TokenizerCount(tokenizer.res.val, text))]
    /\ pc' = "encoded"
    /\ UNCHANGED <<registryVars, bpeModels, vocab, tokenizer, acct, diff, parse, run, watch>>

\* tokenizer.decode(&tokens) on the tokens that encode gave
DecodeTokens ==
    /\ pc = "encoded"
    /\ enc' = [text |-> enc.text, tokens |-> enc.tokens, count |-> enc.count,
               decoded |-> TokenizerDecode(tokenizer.res.val, enc.tokens.val)]
    /\ pc' = "decoded"
    /\ UNCHANGED <<registryVars, bpeModels, vocab, tokenizer, acct, diff, parse, run, watch>>

NextAccounting ==
    \/ GetTokenizer
    \/ CountTokens
    \/ EncodeText
    \/ DecodeTokens

SpecAccounting == InitAccounting /\ [][NextAccounting]_vars

(***************************************************************************)
(* Input texts                                                             *)
(***************************************************************************)
Quoted(text) == << "\"" >> \o text \o << "\"" >>
JsonObject(role, content) ==
    << "{" >> \o Quoted(S_role) \o << ":", " " >> \o Quoted(role) \o << ",", " " >>
              \o Quoted(S_content) \o << ":", " " >> \o Quoted(content) \o << "}" >>

\* the contents of the primary input and of the --diff file
InputTexts ==
    {S_empty,
     S_Hi,
     S_Hello,
     << " ", "H", "i" >>,
     JsonObject(S_user, S_Hello),
     << "\n", "[" >> \o JsonObject(S_system, S_Hello) \o << ",", " " >>
          \o JsonObject(S_tool, S_Hi) \o << "]", "\n" >>,
     << "[", " ", "]" >>,
     << "{" >> \o Quoted(S_role) \o << ":" >> \o Quoted(S_user) \o << "}" >>}

\* ParseInput of each input text, computed once
ParsedInputs == [t \in InputTexts |-> ParseInput(t)]

(***************************************************************************)
(* Diff mode: Cli::run_diff                                                *)
(***************************************************************************)
Abs(x) == IF x < 0 THEN -x ELSE x

\* mutant: a missing --model falls back to gpt-4 (unwrap_or)
RequireModelOrDefault(model) ==
    IF IsSome(model) THEN Ok(Unwrap(model)) ELSE Ok(S_gpt4)

\* self.model.as_ref().ok_or_else(..)
RequireModel(model) ==
    IF IsSome(model) THEN Ok(Unwrap(model))
    ELSE Err(InvalidFormat("Model required for diff mode. Use --model"))

\* mutant: the operands of the subtraction exchanged
TokenDeltaExchanged(result1, result2) == result1.tokens - result2.tokens

\* let diff = result2.tokens as i64 - result1.tokens as i64
TokenDelta(result1, result2) == result2.tokens - result1.tokens

\* mutant: the signed cost difference, without .abs()
CostDifferenceSigned(price, result1, result2) ==
    IF price /\ IsSome(result1.input_cost) /\ IsSome(result2.input_cost)
    THEN Some(Unwrap(result2.input_cost) - Unwrap(result1.input_cost))
    ELSE None

\* the `if self.price { if let (Some(cost1), Some(cost2)) = .. }` block: the
\* value handed to the "Cost difference" line, cost_diff.abs()
CostDifference(price, result1, result2) ==
    IF price /\ IsSome(result1.input_cost) /\ IsSome(result2.input_cost)
    THEN Some(Abs(Unwrap(result2.input_cost) - Unwrap(result1.input_cost)))
    ELSE None

\* "${:.4}": the value in units of 10^-4 USD, rounded to the nearest; when
\* the exact value lies half way, the binary f64 is a little above or below
\* it and either neighbour can be printed
Format4(cost) ==
    LET unit == 100000
        down == cost \div unit
    IN  IF (cost % unit) * 2 < unit THEN {down}
        ELSE IF (cost % unit) * 2 > unit THEN {down + 1}
        ELSE {down, down + 1}

\* what run_diff prints
DiffReport(model, price, result1, result2) ==
    [model |-> model,
     original |-> result1.tokens,
     modified |-> result2.tokens,
     difference |-> TokenDelta(result1, result2),
     sign |-> IF TokenDelta(result1, result2) >= 0 THEN "+" ELSE "",
     cost_difference |-> CostDifference(price, result1, result2)]

\* the counting and reporting of run_diff, from `let result1 = ..`
DiffCounted(name, price, result1, result2) ==
    Ok([result1 |-> result1, result2 |-> result2,
        report |-> DiffReport(name, price, result1, result2)])

\* run_diff from `let messages1 = parser1.parse(&input1)?`
DiffParsed(parsed1, parsed2, name, tok, price) ==
    IF ~parsed1.ok THEN Err(parsed1.err)
    ELSE IF ~parsed2.ok THEN Err(parsed2.err)
    ELSE DiffCounted(name, price,
                     count_tokens(tok, parsed1.val, name, FALSE, price),
                     count_tokens(tok, parsed2.val, name, FALSE, price))

\* run_diff from `let tokenizer = registry.get_tokenizer(model)?`
DiffWithTokenizer(input1, input2, name, tok, price) ==
    IF ~tok.ok THEN Err(tok.err)
    ELSE DiffParsed(ParsedInputs[input1], ParsedInputs[input2], name, tok.val, price)

\* run_diff from `let model = self.model.as_ref().ok_or_else(..)?`
DiffWithModel(input1, input2, required, price) ==
    IF ~required.ok THEN Err(required.err)
    ELSE DiffWithTokenizer(input1, input2, required.val,
                           get_tokenizer(required.val), price)

\* Cli::run_diff up to the printing: `read1` and `read2` are the results of
\* self.get_input() and of reading the --diff file
run_diff(read1, read2, model, price) ==
    IF ~read1.ok THEN Err(read1.err)
    ELSE IF ~read2.ok THEN Err(read2.err)
    ELSE DiffWithModel(read1.val, read2.val, RequireModel(model), price)

(***************************************************************************)
(* Bounded inputs of diff mode                                             *)
(***************************************************************************)
\* the results of self.get_input() and of reading the --diff file
InputReads ==
    {Err(IoError("Failed to read file"))} \cup {Ok(t) : t \in InputTexts}
DiffFileReads ==
    {Err(IoError("Failed to read diff file"))} \cup {Ok(t) : t \in InputTexts}

DiffModels == {None} \cup {Some(m) : m \in {S_gpt4, S_gpt4o, S_geminipro,
                                            S_geminiultra, S_notarealmodel}}

InitDiff ==
    /\ RegistryIdle
    /\ bpeModels \in {BpeCertain \cup x : x \in SUBSET BpeUncertain}
    /\ vocab \in SUBSET Mergeable
    /\ pc = "start"
    /\ tokenizer = << >>
    /\ acct = << >>
    /\ diff = << >>
    /\ parse = << >>
    /\ enc = << >>
    /\ run = << >>
    /\ watch = << >>

\* Cli::run with --diff: run_diff, then the "Cost difference" line
RunDiff ==
    /\ pc = "start"
    /\ \E read1 \in InputReads, read2 \in DiffFileReads,
          model \in DiffModels, price \in BOOLEAN :
         LET out == run_diff(read1, read2, model, price)
         IN  \E shown \in (IF out.ok /\ IsSome(out.val.report.cost_difference)
                           THEN {Some(x) : x \in Format4(Unwrap(out.val.report.cost_difference))}
                           ELSE {None}) :
                diff' = [read1 |-> read1, read2 |-> read2, model |-> model,
                         price |-> price, out |-> out, cost_shown |-> shown]
    /\ pc' = "done"
    /\ UNCHANGED <<registryVars, bpeModels, vocab, tokenizer, acct, parse, enc, run, watch>>

NextDiff == RunDiff

SpecDiff == InitDiff /\ [][NextDiff]_vars

(***************************************************************************)
(* Claims about accounting and tokenizer lookup                            *)
(***************************************************************************)
RECURSIVE SumOver(_, _)
SumOver(f, S) ==
    IF S = {} THEN 0
    ELSE LET x == CHOOSE y \in S : TRUE
         IN  f[x] + SumOver(f, S \ {x})

Counted == pc = "counted"
Tok == tokenizer.res.val

\* the token count of each message of the last pass, by position
MsgCounts == [i \in 1..Len(acct.messages) |->
                 TokenizerCount(Tok, acct.messages[i].content)]
WithRole(role) == {i \in 1..Len(acct.messages) : acct.messages[i].role = role}
Recognised == WithRole(S_system) \cup WithRole(S_user) \cup WithRole(S_assistant)
Bd == Unwrap(acct.result.breakdown)

\* C3: TokenResult.tokens is the sum of count_tokens over all messages
\* whatever their role; with breakdown requested there is a TokenBreakdown,
\* its total is that same sum, and system + user + assistant <= total.
C3_TotalIsSumOfAll ==
    Counted =>
        /\ acct.result.tokens = SumOver(MsgCounts, 1..Len(acct.messages))
        /\ IsSome(acct.result.breakdown) = acct.breakdown
        /\ acct.breakdown =>
              /\ Bd.total = SumOver(MsgCounts, 1..Len(acct.messages))
              /\ Bd.total = acct.result.tokens
              /\ Bd.system + Bd.user + Bd.assistant <= Bd.total

\* two messages, one of them of an unrecognised role with tokens
C3_Witness ==
    /\ Counted
    /\ acct.breakdown
    /\ Len(acct.messages) = 2
    /\ acct.messages[1].role = S_tool
    /\ MsgCounts[1] > 0
    /\ MsgCounts[2] > 0
    /\ Bd.total = MsgCounts[1] + MsgCounts[2]
    /\ Bd.system + Bd.user + Bd.assistant < Bd.total

\* C4 as claimed: system + user + assistant = total if and only if every
\* message has one of the roles "system", "user", "assistant".
C4_EqualityIffAllRecognised ==
    (Counted /\ acct.breakdown) =>
        ((Bd.system + Bd.user + Bd.assistant = Bd.total)
            <=> (Recognised = 1..Len(acct.messages)))

\* C4 as amended: system + user + assistant = total if and only if every
\* message of another role has a token count of 0.
C4_EqualityIffUnrecognisedEmpty ==
    (Counted /\ acct.breakdown) =>
        ((Bd.system + Bd.user + Bd.assistant = Bd.total)
            <=> (\A i \in 1..Len(acct.messages) : i \notin Recognised => MsgCounts[i] = 0))

\* a message of role "tool" with empty content beside a user message with tokens
C4_Witness ==
    /\ Counted
    /\ acct.breakdown
    /\ Len(acct.messages) = 2
    /\ acct.messages[1].role = S_tool
    /\ MsgCounts[1] = 0
    /\ acct.messages[2].role = S_user
    /\ MsgCounts[2] > 0
    /\ Bd.system + Bd.user + Bd.assistant = Bd.total

\* C5: with breakdown requested each bucket is the sum of the counts of the
\* messages whose role is exactly "system", "user" or "assistant"; a message
\* of any other role is in total only.
C5_BucketsByExactRole ==
    (Counted /\ acct.breakdown) =>
        /\ Bd.system = SumOver(MsgCounts, WithRole(S_system))
        /\ Bd.user = SumOver(MsgCounts, WithRole(S_user))
        /\ Bd.assistant = SumOver(MsgCounts, WithRole(S_assistant))
        /\ Bd.total - (Bd.system + Bd.user + Bd.assistant)
              = SumOver(MsgCounts, (1..Len(acct.messages)) \ Recognised)

\* a system message and a message of role "User", both with tokens
C5_Witness ==
    /\ Counted
    /\ acct.breakdown
    /\ Len(acct.messages) = 2
    /\ acct.messages[1].role = S_system
    /\ acct.messages[2].role = S_User
    /\ MsgCounts[1] > 0
    /\ MsgCounts[2] > 0
    /\ Bd.system = MsgCounts[1]
    /\ Bd.user = 0
    /\ Bd.total = MsgCounts[1] + MsgCounts[2]

\* C6: input_cost (output_cost) is present iff pricing was requested and the
\* tokenizer has an input (output) price, and is then (tokens / 1000) * price
\* with the same token total for both; an unknown price gives no cost.
C6_CostIffPricedAndRequested ==
    Counted =>
        /\ IsSome(acct.result.input_cost) = (acct.price /\ IsSome(Tok.input_price))
        /\ IsSome(acct.result.output_cost) = (acct.price /\ IsSome(Tok.output_price))
        /\ IsSome(acct.result.input_cost) =>
              Unwrap(acct.result.input_cost)
                 = SumOver(MsgCounts, 1..Len(acct.messages)) * Unwrap(Tok.input_price)
        /\ IsSome(acct.result.output_cost) =>
              Unwrap(acct.result.output_cost)
                 = SumOver(MsgCounts, 1..Len(acct.messages)) * Unwrap(Tok.output_price)

\* gpt-4 with pricing requested on a text with tokens: 0.03 USD per 1K
C6_Witness ==
    /\ Counted
    /\ acct.price
    /\ tokenizer.model_name = S_gpt4
    /\ acct.result.tokens > 0
    /\ acct.result.input_cost = Some(acct.result.tokens * 30000)
    /\ acct.result.output_cost = Some(acct.result.tokens * 60000)

\* C7: get_tokenizer fails with ModelNotFound whenever the alias-resolved
\* name starts with none of "gpt-", "text-", "gemini-".
C7_UnknownFamilyNotFound ==
    (tokenizer # << >>) =>
        LET model == resolve_alias(tokenizer.model_name)
        IN  (~StartsWith(model, S_gpt_) /\ ~StartsWith(model, S_text_)
                /\ ~StartsWith(model, S_gemini_))
            => /\ ~tokenizer.res.ok
               /\ tokenizer.res.err.kind = "ModelNotFound"
               /\ pc = "failed"

\* "not-a-real-model" was asked for
C7_Witness ==
    /\ tokenizer # << >>
    /\ tokenizer.model_name = S_notarealmodel
    /\ ~tokenizer.res.ok
    /\ tokenizer.res.err = ModelNotFound(S_notarealmodel)

(***************************************************************************)
(* Claims about diff mode                                                  *)
(***************************************************************************)
DiffDone == pc = "done" /\ diff # << >>
Report == diff.out.val.report

\* the same run with the primary input and the --diff file exchanged
Exchanged == run_diff(diff.read2, diff.read1, diff.model, diff.price)

\* tokens(input): the counts of the messages of the input, added up, under
\* the tokenizer of the --model name
TokensOfInput(input) ==
    LET messages == ParsedInputs[input].val
        tok == get_tokenizer(Unwrap(diff.model)).val
    IN  SumOver([i \in 1..Len(messages) |-> TokenizerCount(tok, messages[i].content)],
                1..Len(messages))

\* C8: the delta is tokens(modified) - tokens(baseline) as a signed integer,
\* both counted under the tokenizer of the one model, and exchanging the
\* two inputs negates it.
C8_DeltaAntisymmetric ==
    (DiffDone /\ diff.out.ok) =>
        /\ Report.original = TokensOfInput(diff.read1.val)
        /\ Report.modified = TokensOfInput(diff.read2.val)
        /\ Report.difference = TokensOfInput(diff.read2.val) - TokensOfInput(diff.read1.val)
        /\ diff.out.val.result1.model = diff.out.val.result2.model
        /\ Exchanged.ok
        /\ Exchanged.val.report.difference = -Report.difference

\* the modified input has fewer tokens than the baseline
C8_Witness ==
    /\ DiffDone
    /\ diff.out.ok
    /\ Report.original > Report.modified
    /\ Report.modified > 0
    /\ Report.difference < 0
    /\ Exchanged.val.report.difference > 0

\* C9: a cost difference is reported only when pricing was requested and
\* both sides have an input cost; it is |cost(modified) - cost(baseline)|,
\* not negative and the same with the inputs exchanged (printed with four
\* decimals); no breakdown is computed.
C9_AbsoluteCostDifference ==
    (DiffDone /\ diff.out.ok) =>
        LET tok == get_tokenizer(Unwrap(diff.model)).val
            r1 == diff.out.val.result1
            r2 == diff.out.val.result2
        IN  /\ IsSome(Report.cost_difference)
                 = (diff.price /\ IsSome(r1.input_cost) /\ IsSome(r2.input_cost))
            /\ IsSome(Report.cost_difference) = (diff.price /\ IsSome(tok.input_price))
            /\ IsSome(Report.cost_difference) =>
                 /\ Unwrap(Report.cost_difference) >= 0
                 /\ Unwrap(Report.cost_difference)
                      = Abs(Report.modified * Unwrap(tok.input_price)
                              - Report.original * Unwrap(tok.input_price))
                 /\ Exchanged.val.report.cost_difference = Report.cost_difference
            /\ IsSome(diff.cost_shown) = IsSome(Report.cost_difference)
            /\ IsSome(diff.cost_shown) =>
                 Abs(Unwrap(diff.cost_shown) * 100000 - Unwrap(Report.cost_difference)) <= 50000
            /\ r1.breakdown = None
            /\ r2.breakdown = None

\* pricing requested for gpt-4, the modified input cheaper than the baseline
C9_Witness ==
    /\ DiffDone
    /\ diff.out.ok
    /\ diff.price
    /\ diff.model = Some(S_gpt4)
    /\ Report.modified < Report.original
    /\ Report.cost_difference = Some((Report.original - Report.modified) * 30000)
    /\ diff.out.val.result1.breakdown = None

\* C10 as claimed: in diff mode with no model specified (and both inputs
\* readable) the run fails with the ModelNotFound / InitializationFailed
\* condition of tokenizer lookup.
C10_NoModelFailsAsLookup ==
    (DiffDone /\ diff.model = None /\ diff.read1.ok /\ diff.read2.ok) =>
        /\ ~diff.out.ok
        /\ diff.out.err.kind \in {"ModelNotFound", "InitializationFailed"}

\* C10 as amended: in diff mode with no model specified the run fails and
\* reports no diff: with an I/O error when the primary input or the --diff
\* file cannot be read, otherwise with the argument error InvalidFormat
\* "Model required for diff mode. Use --model"; the tokenizer lookup is not
\* reached.
C10_NoModelFailsAsArgumentError ==
    (DiffDone /\ diff.model = None) =>
        /\ ~diff.out.ok
        /\ diff.cost_shown = None
        /\ (diff.read1.ok /\ diff.read2.ok) =>
              diff.out.err = InvalidFormat("Model required for diff mode. Use --model")
        /\ ~(diff.read1.ok /\ diff.read2.ok) => diff.out.err.kind = "Io"

\* both inputs were read, no --model was given
C10_Witness ==
    /\ DiffDone
    /\ diff.model = None
    /\ diff.read1.ok
    /\ diff.read2.ok
    /\ ~diff.out.ok
    /\ diff.out.err.kind = "InvalidFormat"

(***************************************************************************)
(* Claims about loading pricing overrides                                  *)
(***************************************************************************)
\* what new_with_pricing returned, when the last call was made from it
Built == new_with_pricing([result |-> call.result, models |-> models])

\* C15: apply_pricing_from is all-or-nothing.  The source is the explicit
\* path if given, else the path of the environment; when loading it fails
\* the call returns ConfigLoadFailed for that path and the catalog is exactly
\* as it was; with neither path the call succeeds and the catalog is as it
\* was; new_with_pricing returns the error, and no registry, when loading
\* fails.
C15_AllOrNothing ==
    [][applies' # applies =>
         LET path == call'.pricing_path
             source == IF path # None THEN path ELSE env
         IN  /\ source = None =>
                   /\ call'.result.ok
                   /\ models' = models
                   /\ applied' = applied
             /\ (source # None /\ ~call'.loaded) =>
                   /\ ~call'.result.ok
                   /\ call'.result.err.kind = "ConfigLoadFailed"
                   /\ call'.result.err.detail.path = Unwrap(source)
                   /\ models' = models
                   /\ applied' = applied
             /\ (source # None /\ call'.loaded) => call'.result.ok
             /\ call'.via = "new_with_pricing" =>
                   /\ Built'.ok = call'.result.ok
                   /\ ~call'.result.ok =>
                         /\ Built'.err.kind = "ConfigLoadFailed"
                         /\ ~Live'
                         /\ models' = NewRegistry
                   /\ call'.result.ok => Built'.val = models'
    ]_vars

\* with no explicit path the file the environment names was tried and could
\* not be loaded; the overrides of the earlier call are all still in place
C15_Witness ==
    /\ applies = 2
    /\ call.via = "apply_pricing_from"
    /\ call.pricing_path = None
    /\ env = Some(S_env_toml)
    /\ call.result = Err(ConfigLoadFailed(S_env_toml, "missing file"))
    /\ loadResult = "ConfigLoadFailed"
    /\ Len(applied) = 2
    /\ C1_OverridePrecedence

\* C27: after any sequence of default registrations and override
\* applications, for every record (provider p, model m) in the catalog the
\* three keys m, "p/m" and lowercase(m) all map to that same record, also when
\* two providers register the same model name or two model names differ only
\* by letter case.
C27_ThreeKeysAgree ==
    \A k \in DOMAIN models :
        \A key \in {models[k].model,
                    FormatKey(models[k].provider, models[k].model),
                    ToLowercase(models[k].model)} :
            MapGet(models, key) = Some(models[k])

(***************************************************************************)
(* Lookups on a registry built by new_with_pricing                         *)
(***************************************************************************)
S_x == << "x" >>

\* the names a caller may pass to get_model_info and pricing_for
QueryNames ==
    LookupNames \cup
    {FormatKey(S_openai, S_gpt4turbo), FormatKey(S_azure, S_gpt4turbo),
     FormatKey(S_x, S_gpt4turbopreview), FormatKey(S_x, FormatKey(S_azure, S_gpt4)),
     FormatKey(S_gpt4, S_empty), S_geminipro, S_notarealmodel, S_empty}

\* the registry ModelRegistry::new_with_pricing(Some(path)) returns for a
\* pricing file that loads
InitLookup ==
    /\ \E config \in Configs :
         \E order \in IterationOrders(config) :
            /\ models = new_with_pricing(
                            apply_pricing_from(NewRegistry, Some(S_pricing_toml), None,
                                               Ok(config), order)).val
            /\ applied = order
    /\ applies = 1
    /\ loadResult = "ok"
    /\ env = None
    /\ call = [via |-> "new_with_pricing", pricing_path |-> Some(S_pricing_toml),
               loaded |-> TRUE, result |-> Ok("unit")]
    /\ lookup = << >>
    /\ CliIdle

\* registry.get_model_info(name) and registry.pricing_for(name)
Lookup ==
    /\ \E name \in QueryNames :
         lookup' = [name |-> name,
                    alias |-> resolve_alias(name),
                    info |-> get_model_info(models, name),
                    pricing |-> pricing_for(models, name)]
    /\ UNCHANGED <<models, applied, applies, loadResult, env, call>>
    /\ UNCHANGED cliVars

NextLookup == Lookup

SpecLookup == InitLookup /\ [][NextLookup]_vars

(***************************************************************************)
(* Claims about lookups                                                    *)
(***************************************************************************)
LookedUp == lookup # << >>

\* C18: alias resolution is idempotent: resolve_alias(resolve_alias(x)) is
\* resolve_alias(x) for every name x.
C18_AliasIdempotent ==
    LookedUp => resolve_alias(lookup.alias) = lookup.alias

\* a prefixed name with two '/' was resolved to its last part, and
\* "openai/gpt-4-turbo" resolves to the canonical "gpt-4-turbo-preview"
C18_Witness ==
    /\ LookedUp
    /\ lookup.name = FormatKey(S_x, FormatKey(S_azure, S_gpt4))
    /\ lookup.alias = S_gpt4
    /\ resolve_alias(FormatKey(S_openai, S_gpt4turbo)) = S_gpt4turbopreview
    /\ resolve_alias(S_gpt4turbopreview) = S_gpt4turbopreview

\* C19: get_model_info(name) is the record stored under the raw name if that
\* key exists, otherwise the record stored under the alias-resolved name,
\* and is None exactly when neither key is in the catalog.
C19_RawThenAlias ==
    LookedUp =>
        /\ lookup.name \in DOMAIN models => lookup.info = Some(models[lookup.name])
        /\ (lookup.name \notin DOMAIN models /\ lookup.alias \in DOMAIN models)
              => lookup.info = Some(models[lookup.alias])
        /\ (lookup.info = None)
              <=> (lookup.name \notin DOMAIN models /\ lookup.alias \notin DOMAIN models)

\* "azure/gpt-4" is a key of its own, and its alias "gpt-4" holds the record
\* of another provider: the raw key's record is the answer
C19_Witness ==
    /\ LookedUp
    /\ lookup.name = FormatKey(S_azure, S_gpt4)
    /\ lookup.name \in DOMAIN models
    /\ lookup.alias \in DOMAIN models
    /\ models[lookup.alias].provider = S_openai
    /\ lookup.info = Some(models[lookup.name])
    /\ Unwrap(lookup.info).provider = S_azure

\* C20: pricing_for(name) is a pair if and only if get_model_info(name)
\* finds a record whose input and output price are both known, and is then
\* that record's prices; no record, or a record with a price unknown, gives
\* None.
C20_PairIffBothKnown ==
    LookedUp =>
        LET found == get_model_info(models, lookup.name)
        IN  /\ IsSome(lookup.pricing)
                  <=> /\ IsSome(found)
                      /\ IsSome(Unwrap(found).input_price)
                      /\ IsSome(Unwrap(found).output_price)
            /\ IsSome(lookup.pricing) =>
                  Unwrap(lookup.pricing)
                     = << Unwrap(Unwrap(found).input_price),
                          Unwrap(Unwrap(found).output_price) >>

\* "azure/gpt-4-turbo" is no key, its alias "gpt-4-turbo-preview" is no key:
\* no price; while "azure/gpt-4" is found through its alias "gpt-4"
C20_Witness ==
    /\ LookedUp
    /\ lookup.name = FormatKey(S_azure, S_gpt4turbo)
    /\ lookup.pricing = None
    /\ FormatKey(S_azure, S_gpt4) \notin DOMAIN models
    /\ pricing_for(models, FormatKey(S_azure, S_gpt4)) = pricing_for(models, S_gpt4)
    /\ IsSome(pricing_for(models, S_gpt4))

\* gpt-4-turbo and gpt-4-turbo-preview, bare and behind a provider
AliasEquivalents ==
    {S_gpt4turbo, S_gpt4turbopreview,
     FormatKey(S_openai, S_gpt4turbo), FormatKey(S_openai, S_gpt4turbopreview),
     FormatKey(S_azure, S_gpt4turbo), FormatKey(S_x, S_gpt4turbopreview)}

\* C26: on the default catalog, the names the alias table treats as the same
\* (gpt-4-turbo and gpt-4-turbo-preview), with or without a provider/ before
\* them, give the same get_model_info and the same pricing_for.
C26_AliasEquivalentsAgree ==
    models = NewRegistry =>
        \A a, b \in AliasEquivalents :
            /\ get_model_info(models, a) = get_model_info(models, b)
            /\ pricing_for(models, a) = pricing_for(models, b)

(***************************************************************************)
(* The two parsers, called on their own                                    *)
(***************************************************************************)
\* the messages written as a JSON array of {role, content} objects
RECURSIVE JsonArrayItems(_)
JsonArrayItems(messages) ==
    IF messages = << >> THEN << >>
    ELSE IF Len(messages) = 1 THEN JsonObject(messages[1].role, messages[1].content)
    ELSE JsonObject(messages[1].role, messages[1].content) \o << ",", " " >>
            \o JsonArrayItems(Tail(messages))

JsonArray(messages) == << "[" >> \o JsonArrayItems(messages) \o << "]" >>

ParserRoles    == {S_system, S_user, S_tool}
ParserContents == {S_empty, S_Hi}
ParserMessages == {Message(r, c) : r \in ParserRoles, c \in ParserContents}

\* an input text with what it is: an array of {role, content} objects, a
\* single {role, content} object, or neither
Input(text, shape, messages) == [text |-> text, shape |-> shape, messages |-> messages]

ArrayInputs ==
    {Input(JsonArray(ms), "array", ms) :
        ms \in UNION {[1..n -> ParserMessages] : n \in 0..MaxMsgs}}

ObjectInputs ==
    {Input(JsonObject(m.role, m.content), "object", << m >>) : m \in ParserMessages}

\* texts that are neither: plain text, blank text, cut-off JSON, an object
\* with a field missing or given twice, a trailing comma, text after the
\* value, a number, and role and content given by position in an array
OtherTexts ==
    {S_empty, S_Hi, << " ", "H", "i" >>, << " " >>, << "{" >>, << "[" >>,
     << "{", "}" >>, << "[", "1", "]" >>,
     << "{" >> \o Quoted(S_role) \o << ":" >> \o Quoted(S_user) \o << "}" >>,
     << "{" >> \o Quoted(S_role) \o << ":" >> \o Quoted(S_user) \o << "," >>
         \o Quoted(S_role) \o << ":" >> \o Quoted(S_tool) \o << "," >>
         \o Quoted(S_content) \o << ":" >> \o Quoted(S_Hi) \o << "}" >>,
     << "[" >> \o JsonObject(S_user, S_Hi) \o << ",", "]" >>,
     JsonObject(S_user, S_Hi) \o << " ", "x" >>,
     << "[" >> \o Quoted(S_user) \o << "," >> \o Quoted(S_Hi) \o << "]" >>,
     << "[", "[" >> \o Quoted(S_user) \o << "," >> \o Quoted(S_Hi) \o << "]", "]" >>}

OtherInputs == {Input(t, "other", << >>) : t \in OtherTexts}

ParserInputs == ArrayInputs \cup ObjectInputs \cup OtherInputs

InitParsers ==
    /\ RegistryIdle
    /\ bpeModels = {}
    /\ vocab = {}
    /\ pc = "start"
    /\ tokenizer = << >>
    /\ acct = << >>
    /\ diff = << >>
    /\ parse = << >>
    /\ enc = << >>
    /\ run = << >>
    /\ watch = << >>

\* TextParser::new().parse(input)
TextParse ==
    /\ \E input \in ParserInputs :
         parse' = [parser |-> "text", input |-> input,
                   result |-> TextParser_parse(input.text)]
    /\ pc' = "parsed"
    /\ UNCHANGED <<registryVars, bpeModels, vocab, tokenizer, acct, diff, enc, run, watch>>

\* JsonParser::new().parse(input)
JsonParse ==
    /\ \E input \in ParserInputs :
         parse' = [parser |-> "json", input |-> input,
                   result |-> JsonParser_parse(input.text)]
    /\ pc' = "parsed"
    /\ UNCHANGED <<registryVars, bpeModels, vocab, tokenizer, acct, diff, enc, run, watch>>

NextParsers ==
    \/ TextParse
    \/ JsonParse

SpecParsers == InitParsers /\ [][NextParsers]_vars

(***************************************************************************)
(* Claims about the parsers                                                *)
(***************************************************************************)
ParsedBy(parser) == parse # << >> /\ parse.parser = parser

\* C12: the plain-text parser never fails: for every input, the empty one
\* included, it returns exactly one message, of role "user", whose content
\* is the input as it is.
C12_TextParserVerbatim ==
    ParsedBy("text") =>
        /\ parse.result.ok
        /\ Len(parse.result.val) = 1
        /\ parse.result.val[1].role = S_user
        /\ parse.result.val[1].content = parse.input.text

\* a text that starts with a blank was kept as it is
C12_Witness ==
    /\ ParsedBy("text")
    /\ parse.input.text = << " ", "H", "i" >>
    /\ parse.result = Ok(<< Message(S_user, << " ", "H", "i" >>) >>)
    /\ TextParser_parse(S_empty) = Ok(<< Message(S_user, S_empty) >>)

\* C13: for an array of {role, content} objects the structured parser
\* returns one message per element, in order, with the element's role and
\* content; for a single {role, content} object exactly one message; for an
\* input that is neither it fails with InvalidFormat.
C13_StructuredShapes ==
    ParsedBy("json") =>
        /\ parse.input.shape \in {"array", "object"} =>
              parse.result = Ok(parse.input.messages)
        /\ parse.input.shape = "other" =>
              /\ ~parse.result.ok
              /\ parse.result.err.kind = "InvalidFormat"

(***************************************************************************)
(* Claims about the tokenizers                                             *)
(***************************************************************************)
Encoded == pc = "encoded"

\* C14: for every backend and text, count_tokens(text) is the length of
\* encode(text); for the backend without a vocabulary both are the number of
\* characters divided by 4, rounded up; the empty text gives 0 tokens and
\* the empty sequence.
C14_CountIsEncodeLength ==
    Encoded =>
        /\ enc.tokens.ok
        /\ enc.count = Ok(Len(enc.tokens.val))
        /\ tokenizer.res.val.family = "gemini" =>
              /\ 4 * enc.count.val >= Len(enc.text)
              /\ 4 * enc.count.val < Len(enc.text) + 4
        /\ enc.text = S_empty =>
              /\ enc.count = Ok(0)
              /\ enc.tokens = Ok(<< >>)

\* a text of 9 characters under the Gemini backend: 3 tokens
C14_Witness ==
    /\ Encoded
    /\ tokenizer.res.val.family = "gemini"
    /\ enc.text = S_assistant
    /\ enc.count = Ok(3)
    /\ enc.tokens = Ok(<< 1, 1, 1 >>)

\* the tokens of a text were decoded
Decoded == pc = "decoded"

MaxCompare == 2     \* names given with --compare

\* the content of the input: the texts of diff mode, and blank text, text
\* with a brace inside, an object after a blank, an object cut off
RunTexts ==
    InputTexts \cup
    {<< " ", "\n" >>, << "H", "i", " ", "{" >>,
     << " ", "\t" >> \o JsonObject(S_user, S_Hi), << "\n", "{" >>}

\* the result of self.get_input()
RunReads == {Err(IoError("Failed to read file"))} \cup {Ok(t) : t \in RunTexts}

CompareNames == {S_gpt4, S_gpt4o, S_geminipro, S_notarealmodel}
CompareLists == UNION {[1..n -> CompareNames] : n \in 0..MaxCompare}
RunModels    == {None, Some(S_geminiultra)}

\* `let models = if !self.compare.is_empty() { .. } else if let Some(model) ..`
DetermineModels(compare, model) ==
    IF compare # << >> THEN Ok(compare)
    ELSE IF IsSome(model) THEN Ok(<< Unwrap(model) >>)
    ELSE Err(InvalidFormat("No model specified. Use --model or --compare"))

\* the parser chosen for the input
SelectParser(input) == IF LooksStructured(input) THEN "json" ELSE "text"

\* parser.parse(&original_input)
ParseWith(parser, input) ==
    IF parser = "json" THEN JsonParser_parse(input) ELSE TextParser_parse(input)

\* mutant: a model whose tokenizer cannot be made is skipped
ProcessModelSkipFailed(results, tok, messages, model_name, breakdown, price) ==
    IF ~tok.ok THEN Ok(results)
    ELSE Ok(Append(results, count_tokens(tok.val, messages, model_name, breakdown, price)))

\* the body of `for model_name in &models`: `tok` is the result of
\* registry.get_tokenizer(model_name)
ProcessModel(results, tok, messages, model_name, breakdown, price) ==
    IF ~tok.ok THEN Err(tok.err)
    ELSE Ok(Append(results, count_tokens(tok.val, messages, model_name, breakdown, price)))

\* mutant: the results are always printed as a comparison
PrintedAsComparison(results) ==
    [formatted |-> "format_comparison", results |-> results]

\* what is printed: format_result for one result, format_comparison for more
Printed(results) ==
    [formatted |-> IF Len(results) = 1 THEN "format_result" ELSE "format_comparison",
     results |-> results]

\* mutant: the error is reported and the process ends as after a success
main_report_only(result) ==
    IF ~result.ok
    THEN [status |-> 0, stderr |-> << "Error", result.err >>]
    ELSE [status |-> 0, stderr |-> << >>]

\* main: `result` is the result of cli.run(); returning from main is exit
\* status 0
main(result) ==
    IF ~result.ok
    THEN [status |-> 1, stderr |-> << "Error", result.err >>]
    ELSE [status |-> 0, stderr |-> << >>]

InitRun ==
    /\ RegistryIdle
    /\ bpeModels \in {BpeCertain \cup x : x \in SUBSET BpeUncertain}
    /\ vocab \in SUBSET Mergeable
    /\ pc = "start"
    /\ tokenizer = << >>
    /\ acct = << >>
    /\ diff = << >>
    /\ parse = << >>
    /\ enc = << >>
    /\ run = << >>
    /\ watch = << >>

\* `run` after a step that failed with `?` or an early return
RunFailed(read, compare, model, breakdown, price, parser, err) ==
    [read |-> read, compare |-> compare, model |-> model,
     breakdown |-> breakdown, price |-> price,
     models |-> << >>, parser |-> parser, messages |-> << >>,
     next |-> 1, results |-> << >>, printed |-> None, err |-> Some(err),
     exit |-> None]

\* Cli::run from `let input = self.get_input()?` to
\* `let messages = parser.parse(&original_input)?`
RunParse ==
    /\ pc = "start"
    /\ \E read \in RunReads, compare \in CompareLists, model \in RunModels,
          breakdown \in BOOLEAN, price \in BOOLEAN :
         IF ~read.ok
         THEN /\ run' = RunFailed(read, compare, model, breakdown, price, "none", read.err)
              /\ pc' = "failed"
         ELSE IF ~DetermineModels(compare, model).ok
         THEN /\ run' = RunFailed(read, compare, model, breakdown, price, "none",
                                  DetermineModels(compare, model).err)
              /\ pc' = "failed"
         ELSE IF ~ParseWith(SelectParser(read.val), read.val).ok
         THEN /\ run' = RunFailed(read, compare, model, breakdown, price,
                                  SelectParser(read.val),
                                  ParseWith(SelectParser(read.val), read.val).err)
              /\ pc' = "failed"
         ELSE /\ run' = [read |-> read, compare |-> compare, model |-> model,
                         breakdown |-> breakdown, price |-> price,
                         models |-> DetermineModels(compare, model).val,
                         parser |-> SelectParser(read.val),
                         messages |-> ParseWith(SelectParser(read.val), read.val).val,
                         next |-> 1, results |-> << >>, printed |-> None, err |-> None,
                         exit |-> None]
              /\ pc' = "loop"
    /\ UNCHANGED <<registryVars, bpeModels, vocab, tokenizer, acct, diff, parse, enc, watch>>

\* one iteration of `for model_name in &models`
RunModel ==
    /\ pc = "loop"
    /\ run.next <= Len(run.models)
    /\ LET step == ProcessModel(run.results, get_tokenizer(run.models[run.next]),
                                run.messages, run.models[run.next],
                                run.breakdown, run.price)
       IN  IF step.ok
           THEN /\ run' = [run EXCEPT !.results = step.val, !.next = @ + 1]
                /\ pc' = "loop"
           ELSE /\ run' = [run EXCEPT !.err = Some(step.err)]
                /\ pc' = "failed"
    /\ UNCHANGED <<registryVars, bpeModels, vocab, tokenizer, acct, diff, parse, enc, watch>>

\* after the loop: the formatter prints the results, Ok(())
RunPrint ==
    /\ pc = "loop"
    /\ run.next > Len(run.models)
    /\ run' = [run EXCEPT !.printed = Some(Printed(run.results))]
    /\ pc' = "done"
    /\ UNCHANGED <<registryVars, bpeModels, vocab, tokenizer, acct, diff, parse, enc, watch>>

\* the result of cli.run() once it has returned
RunResult == IF pc = "failed" THEN Err(Unwrap(run.err)) ELSE Ok("unit")

\* main after cli.run() has returned
RunExit ==
    /\ pc \in {"done", "failed"}
    /\ run # << >>
    /\ run.exit = None
    /\ run' = [run EXCEPT !.exit = Some(main(RunResult))]
    /\ UNCHANGED <<registryVars, bpeModels, vocab, pc, tokenizer, acct, diff, parse, enc, watch>>

NextRun ==
    \/ RunParse
    \/ RunModel
    \/ RunPrint
    \/ RunExit

SpecRun == InitRun /\ [][NextRun]_vars

(***************************************************************************)
(* Claims about Cli::run                                                   *)
(***************************************************************************)
\* the first character of the text that is not whitespace is '{' or '['
FirstIsBraceOrBracket(text) ==
    \E i \in 1..Len(text) :
        /\ text[i] \in {"{", "["}
        /\ \A j \in 1..(i - 1) : text[j] \in {" ", "\n", "\t", "\r"}

\* the input was read and the models were determined
ParserChosen == run # << >> /\ run.parser # "none"

\* C11: the structured parser is selected if and only if the first
\* character of the input that is not whitespace is '{' or '['; otherwise,
\* for empty and blank input too, the plain-text parser is; when the
\* structured parser fails, the run fails with InvalidFormat and the input is
\* not parsed as plain text.
C11_FormatDetection ==
    ParserChosen =>
        /\ (run.parser = "json") <=> FirstIsBraceOrBracket(run.read.val)
        /\ (run.parser = "text") <=> ~FirstIsBraceOrBracket(run.read.val)
        /\ run.parser = "text" =>
              run.messages = << Message(S_user, run.read.val) >>
        /\ (run.parser = "json" /\ ~JsonParser_parse(run.read.val).ok) =>
              /\ pc = "failed"
              /\ Unwrap(run.err).kind = "InvalidFormat"
              /\ run.messages = << >>
              /\ run.results = << >>
              /\ run.printed = None

\* an object cut off after a line break: the structured parser was chosen
\* and the run failed
C11_Witness ==
    /\ ParserChosen
    /\ run.read.val = << "\n", "{" >>
    /\ run.parser = "json"
    /\ pc = "failed"
    /\ run.err = Some(InvalidFormat("Input is not valid JSON message format"))
    /\ SelectParser(<< " ", "\n" >>) = "text"
    /\ SelectParser(S_empty) = "text"

\* the run is over
RunOver == pc \in {"done", "failed"} /\ run # << >>

\* C16: in comparison mode, when the tokenizer of any model of the list
\* cannot be made, the run returns that error and prints no result for any
\* model, those counted before it included.
C16_ComparisonAllOrNothing ==
    RunOver =>
        /\ pc = "failed" => (run.printed = None /\ IsSome(run.err))
        /\ pc = "done" =>
              /\ run.err = None
              /\ IsSome(run.printed)
              /\ Len(Unwrap(run.printed).results) = Len(run.models)
              /\ \A i \in 1..Len(run.models) :
                    /\ get_tokenizer(run.models[i]).ok
                    /\ Unwrap(run.printed).results[i].model = run.models[i]
        /\ (run.models # << >>
              /\ \E i \in 1..Len(run.models) : ~get_tokenizer(run.models[i]).ok) =>
              /\ pc = "failed"
              /\ LET first == CHOOSE i \in 1..Len(run.models) :
                                 /\ ~get_tokenizer(run.models[i]).ok
                                 /\ \A j \in 1..(i - 1) : get_tokenizer(run.models[j]).ok
                 IN  /\ run.err = Some(get_tokenizer(run.models[first]).err)
                     /\ Len(run.results) = first - 1

\* gpt-4 was counted, then "not-a-real-model" failed: nothing is printed
C16_Witness ==
    /\ RunOver
    /\ run.compare = << S_gpt4, S_notarealmodel >>
    /\ pc = "failed"
    /\ Len(run.results) = 1
    /\ run.results[1].model = S_gpt4
    /\ run.err = Some(ModelNotFound(S_notarealmodel))
    /\ run.printed = None

\* the list of models the run works on: the names of --compare when there
\* are any, else the name of --model
Requested ==
    IF run.compare # << >> THEN run.compare ELSE << Unwrap(run.model) >>

\* C21: a successful run without --diff gives one TokenResult for each
\* requested model, in the order requested, all counted on the same parsed
\* messages; the results are printed as a comparison if and only if more than
\* one model was requested, and as a single result otherwise.
C21_OneResultPerModel ==
    (RunOver /\ pc = "done") =>
        /\ run.models = Requested
        /\ run.messages = ParseWith(SelectParser(run.read.val), run.read.val).val
        /\ Len(run.results) = Len(Requested)
        /\ \A i \in 1..Len(Requested) :
              /\ run.results[i].model = Requested[i]
              /\ run.results[i] =
                    count_tokens(get_tokenizer(Requested[i]).val, run.messages,
                                 Requested[i], run.breakdown, run.price)
        /\ IsSome(run.printed)
        /\ Unwrap(run.printed).results = run.results
        /\ (Unwrap(run.printed).formatted = "format_comparison")
              <=> (Len(Requested) > 1)
        /\ (Unwrap(run.printed).formatted = "format_result")
              <=> (Len(Requested) = 1)

\* gemini-pro and gpt-4 were compared on a JSON message: two results in that
\* order, printed as a comparison
C21_Witness ==
    /\ RunOver
    /\ pc = "done"
    /\ run.compare = << S_geminipro, S_gpt4 >>
    /\ run.read.val = JsonObject(S_user, S_Hello)
    /\ Len(run.results) = 2
    /\ run.results[1].model = S_geminipro
    /\ run.results[2].model = S_gpt4
    /\ run.results[1].tokens = 2
    /\ Unwrap(run.printed).formatted = "format_comparison"

\* the process has ended
Exited == run # << >> /\ IsSome(run.exit)

\* C22: the process ends with a status that is not zero and an error message
\* if and only if the run ended in an error (input not readable, no model
\* given, structured input malformed, model not supported); on every other
\* path it ends with status zero after the results were printed.
C22_ExitStatus ==
    Exited =>
        /\ (Unwrap(run.exit).status # 0) <=> IsSome(run.err)
        /\ (Unwrap(run.exit).stderr # << >>) <=> IsSome(run.err)
        /\ IsSome(run.err) =>
              /\ pc = "failed"
              /\ Unwrap(run.exit).stderr = << "Error", Unwrap(run.err) >>
              /\ run.printed = None
              /\ Unwrap(run.err).kind \in
                    {"Io", "InvalidFormat", "ModelNotFound", "InitializationFailed"}
        /\ run.err = None =>
              /\ pc = "done"
              /\ Unwrap(run.exit).status = 0
              /\ IsSome(run.printed)
        /\ (~run.read.ok
              \/ (run.compare = << >> /\ run.model = None)
              \/ (run.read.ok /\ ~ParseWith(SelectParser(run.read.val), run.read.val).ok)
              \/ \E i \in 1..Len(run.models) : ~get_tokenizer(run.models[i]).ok)
              <=> IsSome(run.err)

\* a model that is not supported: status 1 and the error on stderr
C22_Witness ==
    /\ Exited
    /\ run.err = Some(ModelNotFound(S_notarealmodel))
    /\ Unwrap(run.exit) = [status |-> 1,
                           stderr |-> << "Error", ModelNotFound(S_notarealmodel) >>]

(***************************************************************************)
(* Watch mode: Cli::run_watch (feature "watch" enabled)                    *)
(*                                                                         *)
(* The watcher sends its notifications into an mpsc channel from its own   *)
(* thread; run_watch takes them out one at a time with rx.recv() and calls *)
(* run_once from the same thread.                                          *)
(***************************************************************************)
MaxEvents == 3      \* notifications the watcher sends in one behaviour

S_dash      == << "-" >>
S_prompt_md == << "p", ".", "m", "d" >>

\* self.input
WatchInputs == {None, Some(S_dash), Some(S_prompt_md)}

\* the results of self.run_once(): Cli::run on the file as it is then
RunOnceResults ==
    {Ok("unit"),
     Err(IoError("Failed to read file")),
     Err(InvalidFormat("Input is not valid JSON message format")),
     Err(ModelNotFound(S_notarealmodel))}

\* what the watcher sends: Ok(event) with a kind that is a modification,
\* Ok(event) of another kind, Err(e)
Notifications == {"modify", "other", "watch_error"}

\* run_watch up to the initial analysis: the early returns, in the order of
\* the code
WatchSetup(input, exists, created, watched) ==
    IF input = None THEN Err(InvalidFormat("File path required for watch mode"))
    ELSE IF Unwrap(input) = S_dash
    THEN Err(InvalidFormat("Cannot watch stdin. Provide a file path."))
    ELSE IF ~exists THEN Err(InvalidFormat("File not found"))
    ELSE IF ~created THEN Err(IoError("Failed to create file watcher"))
    ELSE IF ~watched THEN Err(IoError("Failed to watch file"))
    ELSE Ok("watching")

\* mutant: the error of the initial analysis is only reported
AfterInitialReportOnly(result) ==
    IF result.ok
    THEN [state |-> "watching", reported |-> << >>, returned |-> None]
    ELSE [state |-> "watching", reported |-> << << "Error", result.err >> >>,
          returned |-> None]

\* `self.run_once()?` before the loop: `result` is the result of run_once
AfterInitial(result) ==
    IF result.ok
    THEN [state |-> "watching", reported |-> << >>, returned |-> None]
    ELSE [state |-> "returned", reported |-> << >>,
          returned |-> Some(Err(result.err))]

\* mutant: the error of a re-analysis is returned with `?` and ends the loop
AfterReanalysisPropagate(result) ==
    IF result.ok
    THEN [state |-> "watching", reported |-> << >>, returned |-> None]
    ELSE [state |-> "returned", reported |-> << >>,
          returned |-> Some(Err(result.err))]

\* the arm Ok(Ok(event)) with event.kind.is_modify(), after
\* self.run_once() has returned `result`
AfterReanalysis(result) ==
    IF result.ok
    THEN [state |-> "watching", reported |-> << >>, returned |-> None]
    ELSE [state |-> "watching", reported |-> << << "Error", result.err >> >>,
          returned |-> None]

\* mutant: every event starts a re-analysis
is_modify_or_other(kind) == kind \in {"modify", "other"}

\* event.kind.is_modify()
is_modify(kind) == kind = "modify"

\* mutant: notifications are taken while an analysis is in progress
AtRecvOrAnalysing(w) == w.state \in {"watching", "analysing"}

\* the loop is at rx.recv(): run_once is called from the loop itself, which
\* comes back to rx.recv() when run_once has returned
AtRecv(w) == w.state = "watching"

InitWatch ==
    /\ RegistryIdle
    /\ bpeModels = {}
    /\ vocab = {}
    /\ pc = "start"
    /\ tokenizer = << >>
    /\ acct = << >>
    /\ diff = << >>
    /\ parse = << >>
    /\ enc = << >>
    /\ run = << >>
    /\ watch = << >>

\* a step of watch mode that leaves `w` as the state of run_watch
WatchStep(w) ==
    /\ watch' = w
    /\ pc' = IF w.state = "returned" THEN "done" ELSE w.state
    /\ UNCHANGED <<registryVars, bpeModels, vocab, tokenizer, acct, diff, parse, enc, run>>

\* rx.recv() gave the notification at the head of the channel, which was
\* handled with `outcome`
Handled(last, outcome) ==
    WatchStep([watch EXCEPT !.state = outcome.state,
                            !.queue = Tail(@),
                            !.received = @ + 1,
                            !.last = last,
                            !.log = @ \o outcome.reported,
                            !.returned = outcome.returned])

\* run_watch from its start to the call of the initial self.run_once(): the
\* watcher is running from here on
WatchStart ==
    /\ pc = "start"
    /\ \E input \in WatchInputs, exists \in BOOLEAN, created \in BOOLEAN,
          watched \in BOOLEAN :
         LET setup == WatchSetup(input, exists, created, watched)
         IN  WatchStep([input |-> input,
                        state |-> IF setup.ok THEN "initial" ELSE "returned",
                        queue |-> << >>,
                        sent |-> << >>,
                        closed |-> FALSE,
                        running |-> IF setup.ok THEN 1 ELSE 0,
                        initial |-> None,
                        started |-> << >>,
                        finished |-> 0,
                        received |-> 0,
                        last |-> << "none" >>,
                        log |-> << >>,
                        returned |-> IF setup.ok THEN None ELSE Some(setup)])

\* the watcher thread sends a notification: the channel has no bound, the
\* notification is put behind those waiting
WatchNotify ==
    /\ pc \in {"initial", "watching", "analysing"}
    /\ ~watch.closed
    /\ Len(watch.sent) < MaxEvents
    /\ \E kind \in Notifications :
         WatchStep([watch EXCEPT
                      !.queue = Append(@, kind),
                      !.sent = Append(@, [kind |-> kind, during |-> watch.state])])

\* the sending side of the channel goes away
WatchDisconnect ==
    /\ pc \in {"initial", "watching", "analysing"}
    /\ ~watch.closed
    /\ WatchStep([watch EXCEPT !.closed = TRUE])

\* the initial self.run_once()? returns
WatchInitialDone ==
    /\ pc = "initial"
    /\ \E result \in RunOnceResults :
         WatchStep([watch EXCEPT !.state = AfterInitial(result).state,
                                 !.running = @ - 1,
                                 !.initial = Some(result),
                                 !.log = @ \o AfterInitial(result).reported,
                                 !.returned = AfterInitial(result).returned])

\* Ok(Ok(event)) with event.kind.is_modify(): println!, then self.run_once()
\* is called
WatchModify ==
    /\ pc \in {"watching", "analysing"}
    /\ AtRecv(watch)
    /\ watch.queue # << >>
    /\ Head(watch.queue) # "watch_error"
    /\ is_modify(Head(watch.queue))
    /\ WatchStep([watch EXCEPT !.state = "analysing",
                               !.queue = Tail(@),
                               !.received = @ + 1,
                               !.running = @ + 1,
                               !.last = << "modify" >>,
                               !.started = Append(@, watch.received + 1),
                               !.log = Append(@, << "File changed, re-analyzing" >>)])

\* the self.run_once() of a re-analysis returns
WatchReanalysed ==
    /\ pc = "analysing"
    /\ \E result \in RunOnceResults :
         WatchStep([watch EXCEPT !.state = AfterReanalysis(result).state,
                                 !.running = @ - 1,
                                 !.finished = @ + 1,
                                 !.last = << "modify", result >>,
                                 !.log = @ \o AfterReanalysis(result).reported,
                                 !.returned = AfterReanalysis(result).returned])

\* Ok(Ok(event)) of another kind: nothing is done
WatchOtherEvent ==
    /\ pc \in {"watching", "analysing"}
    /\ AtRecv(watch)
    /\ watch.queue # << >>
    /\ Head(watch.queue) # "watch_error"
    /\ ~is_modify(Head(watch.queue))
    /\ Handled(<< "other" >>,
               [state |-> watch.state, reported |-> << >>, returned |-> None])

\* Ok(Err(e)): eprintln!("Watch error: {}", e)
WatchError ==
    /\ pc \in {"watching", "analysing"}
    /\ AtRecv(watch)
    /\ watch.queue # << >>
    /\ Head(watch.queue) = "watch_error"
    /\ Handled(<< "watch_error" >>,
               [state |-> watch.state, reported |-> << << "Watch error" >> >>,
                returned |-> None])

\* Err(e), the channel is empty and has no sender left:
\* eprintln!("Channel error: {}", e); break; Ok(())
WatchChannelError ==
    /\ pc = "watching"
    /\ watch.queue = << >>
    /\ watch.closed
    /\ WatchStep([watch EXCEPT !.state = "returned",
                               !.received = @ + 1,
                               !.last = << "recv_failed" >>,
                               !.log = Append(@, << "Channel error" >>),
                               !.returned = Some(Ok("unit"))])

NextWatch ==
    \/ WatchStart
    \/ WatchNotify
    \/ WatchDisconnect
    \/ WatchInitialDone
    \/ WatchModify
    \/ WatchReanalysed
    \/ WatchOtherEvent
    \/ WatchError
    \/ WatchChannelError

SpecWatch == InitWatch /\ [][NextWatch]_vars

\* the thread of run_watch goes on while it can, and every analysis returns
SpecWatchFair ==
    /\ SpecWatch
    /\ WF_vars(WatchInitialDone)
    /\ WF_vars(WatchModify)
    /\ WF_vars(WatchReanalysed)
    /\ WF_vars(WatchOtherEvent)
    /\ WF_vars(WatchError)
    /\ WF_vars(WatchChannelError)

(***************************************************************************)
(* Claims about watch mode                                                 *)
(***************************************************************************)
\* the loop was entered and rx.recv() has returned at least once
InLoop == watch # << >> /\ watch.received > 0

\* C17: in watch mode the error of a re-analysis started by a change
\* notification, and a watcher error notification, are reported and the loop
\* goes on taking notifications; the loop ends only when receiving from the
\* channel fails.
C17_LoopSurvivesErrors ==
    InLoop =>
        /\ (watch.last[1] = "modify" /\ Len(watch.last) = 2 /\ ~watch.last[2].ok) =>
              /\ watch.state = "watching"
              /\ pc = "watching"
              /\ watch.returned = None
              /\ watch.log[Len(watch.log)] = << "Error", watch.last[2].err >>
        /\ watch.last[1] = "watch_error" =>
              /\ watch.state = "watching"
              /\ pc = "watching"
              /\ watch.returned = None
              /\ watch.log[Len(watch.log)] = << "Watch error" >>
        /\ (watch.state = "returned") <=> (watch.last[1] = "recv_failed")
        /\ watch.state = "returned" => watch.returned = Some(Ok("unit"))
        /\ (watch.state = "watching" /\ watch.queue # << >>) =>
              ENABLED (WatchModify \/ WatchOtherEvent \/ WatchError)

\* a re-analysis failed, a watcher error followed, and the loop is still
\* taking notifications
C17_Witness ==
    /\ InLoop
    /\ watch.received = 2
    /\ watch.state = "watching"
    /\ watch.last = << "watch_error" >>
    /\ watch.log = << << "File changed, re-analyzing" >>,
                      << "Error", ModelNotFound(S_notarealmodel) >>,
                      << "Watch error" >> >>

\* a notification sent while a re-analysis was in progress waits in the
\* channel, and that re-analysis is still the only one
C24_Witness ==
    /\ watch # << >>
    /\ watch.state = "analysing"
    /\ watch.running = 1
    /\ watch.started = << 1 >>
    /\ watch.finished = 0
    /\ Len(watch.sent) = 2
    /\ watch.sent[2] = [kind |-> "modify", during |-> "analysing"]
    /\ watch.queue = << "modify" >>

\* C24: the analyses of watch mode are strictly serialized: at every moment
\* at most one analysis is in progress; while one is in progress no
\* notification is taken from the channel and none is started, a notification
\* that arrives then is put at the end of the channel; an analysis starts
\* only when every analysis before it has returned.
C24_Serialized ==
    [][watch # << >> =>
         /\ watch'.running <= 1
         /\ watch.running = 1 =>
              /\ watch'.received = watch.received
              /\ watch'.started = watch.started
              /\ \/ watch'.queue = watch.queue
                 \/ \E kind \in Notifications :
                       watch'.queue = Append(watch.queue, kind)
         /\ watch'.started # watch.started =>
              /\ watch.running = 0
              /\ IsSome(watch.initial)
              /\ watch.finished = Len(watch.started)]_vars

\* the notifications taken from the channel so far are the first `Consumed`
\* of those sent
Consumed == Len(watch.sent) - Len(watch.queue)

\* the positions, among the first n notifications sent, of the modifications
ModifiesUpTo(n) ==
    SelectSeq([k \in 1..n |-> k], LAMBDA k : watch.sent[k].kind = "modify")

\* the re-analyses started are those of the modifications taken from the
\* channel, one each, in the order of arrival
OnePerModify ==
    watch # << >> =>
        /\ watch.started = ModifiesUpTo(Consumed)
        /\ watch.finished + (IF watch.state = "analysing" THEN 1 ELSE 0)
              = Len(watch.started)

\* C25: in watch mode, once the loop has been entered, every modify
\* notification put in the channel eventually starts one re-analysis of its
\* own, in the order of arrival (none is merged with another, none is
\* dropped); notifications of another kind and watcher errors start none.
C25_EveryModifyAnalysed ==
    /\ []OnePerModify
    /\ \A k \in 1..MaxEvents :
          (/\ watch # << >>
           /\ IsSome(watch.initial)
           /\ Unwrap(watch.initial).ok
           /\ Len(watch.sent) >= k
           /\ watch.sent[k].kind = "modify")
          ~> (/\ watch # << >>
              /\ \E i \in 1..Len(watch.started) :
                    watch.started[i] = k /\ watch.finished >= i)

\* a modification, a watcher error and a second modification were sent during
\* the initial analysis: the two modifications were analysed, in that order
C25_Witness ==
    /\ watch # << >>
    /\ Len(watch.sent) = 3
    /\ watch.sent[1] = [kind |-> "modify", during |-> "initial"]
    /\ watch.sent[2] = [kind |-> "watch_error", during |-> "initial"]
    /\ watch.sent[3] = [kind |-> "modify", during |-> "initial"]
    /\ watch.started = << 1, 3 >>
    /\ watch.finished = 2
    /\ watch.queue = << >>

\* C30: in watch mode the initial analysis is over before any notification
\* is taken from the channel; when it fails, run_watch returns its error and
\* the loop is never entered, whereas the failure of a later re-analysis does
\* not end run_watch.
C30_InitialAnalysisFirst ==
    watch # << >> =>
        /\ watch.state = "initial" =>
              /\ watch.running = 1
              /\ watch.received = 0
              /\ watch.started = << >>
              /\ watch.log = << >>
        /\ (watch.received > 0 \/ watch.started # << >>) =>
              /\ IsSome(watch.initial)
              /\ Unwrap(watch.initial).ok
        /\ (IsSome(watch.initial) /\ ~Unwrap(watch.initial).ok) =>
              /\ watch.state = "returned"
              /\ pc = "done"
              /\ watch.returned = Some(Err(Unwrap(watch.initial).err))
              /\ watch.received = 0
              /\ watch.started = << >>
              /\ watch.log = << >>
        /\ (watch.last[1] = "modify" /\ Len(watch.last) = 2 /\ ~watch.last[2].ok) =>
              /\ watch.state # "returned"
              /\ watch.returned = None

\* the initial analysis failed while a modification was waiting in the
\* channel: run_watch returned the error, the modification was never taken
C30_Witness ==
    /\ watch # << >>
    /\ watch.initial = Some(Err(IoError("Failed to read file")))
    /\ watch.state = "returned"
    /\ watch.returned = Some(Err(IoError("Failed to read file")))
    /\ watch.queue = << "modify" >>
    /\ watch.received = 0

(***************************************************************************)
(* The catalog and the tokenizers: a registry that takes pricing overrides *)
(* and whose tokenizers are asked for their prices                         *)
(***************************************************************************)
\* the models of register_default_models
DefaultModels ==
    {S_gpt4, S_gpt4turbo, S_gpt35turbo, S_geminipro, S_gemini25pro, S_gemini25flash}

\* the names priced: the default models, a name behind a provider, a name of
\* no family
PricedNames == DefaultModels \cup {FormatKey(S_openai, S_gpt4), S_notarealmodel}

\* whether these names of the default catalog have a vocabulary is up to the
\* tiktoken tables
BpeCatalog == {S_gpt4turbopreview, S_gpt35turbo}

InitCatalog ==
    /\ RegistryIdle
    /\ bpeModels \in {BpeCertain \cup x : x \in SUBSET BpeCatalog}
    /\ vocab = {}
    /\ pc = "idle"
    /\ tokenizer = << >>
    /\ acct = << >>
    /\ diff = << >>
    /\ parse = << >>
    /\ enc = << >>
    /\ run = << >>
    /\ watch = << >>

\* registry.get_tokenizer(name), count_tokens with --price on one message,
\* and registry.pricing_for(name), on the registry as it is now
PriceModel ==
    /\ \E name \in PricedNames :
         /\ tokenizer' = [model_name |-> name, res |-> get_tokenizer(name)]
         /\ acct' = [applies |-> applies,
                     pricing |-> pricing_for(models, name),
                     result |-> IF get_tokenizer(name).ok
                                THEN Some(count_tokens(get_tokenizer(name).val,
                                                       << Message(S_user, S_Hello) >>,
                                                       name, FALSE, TRUE))
                                ELSE None]
    /\ UNCHANGED <<registryVars, bpeModels, vocab, pc, diff, parse, enc, run, watch>>

NextCatalog ==
    \/ ApplyPricingConfig
    \/ PriceModel

SpecCatalog == InitCatalog /\ [][NextCatalog]_vars

(***************************************************************************)
(* Claims about the catalog and the tokenizers                             *)
(***************************************************************************)
\* a name was priced
Priced == tokenizer # << >>

C29_TokenizerPricesMatchCatalog ==
    (Priced /\ models = NewRegistry /\ tokenizer.model_name \in DefaultModels
       /\ tokenizer.res.ok) =>
        /\ IsSome(tokenizer.res.val.input_price)
        /\ IsSome(tokenizer.res.val.output_price)
        /\ acct.pricing = Some(<< Unwrap(tokenizer.res.val.input_price),
                                  Unwrap(tokenizer.res.val.output_price) >>)

\* gpt-4-turbo, whose tokenizer is made for gpt-4-turbo-preview: 0.01 / 0.03
\* on both sides
C29_Witness ==
    /\ Priced
    /\ models = NewRegistry
    /\ tokenizer.model_name = S_gpt4turbo
    /\ tokenizer.res.ok
    /\ tokenizer.res.val.model_name = S_gpt4turbopreview
    /\ tokenizer.res.val.input_price = Some(10000)
    /\ acct.pricing = Some(<< 10000, 30000 >>)

====
